---- MODULE Spec2Model ----
(***************************************************************************)
(* A model of dev-updates (braxcat/devax): the Slack client                *)
(* (lib/slack_client.py), the command dispatcher (dev_updates.py), the     *)
(* roadmap snapshot builder (lib/parsers.py), the daily git statistics     *)
(* (lib/stats/git_collector.py), the estimator (lib/stats/estimator.py),   *)
(* the Block Kit builders (lib/formatters.py, lib/stats/formatter.py) and  *)
(* the chart URL builders (lib/stats/charts.py).                           *)
(*                                                                         *)
(* The program is sequential.  Every function of the source is an operator *)
(* that is computed the way the code computes it; a function that talks to *)
(* Slack threads a "world" record through its calls: the platform's state, *)
(* the log of requests and sleeps issued so far, and the tape of transport *)
(* faults the platform will answer with.  A Python exception is the field  *)
(* exc of the value an operator returns ("none" when it returned).         *)
(***************************************************************************)
EXTENDS Integers, Sequences, FiniteSets, TLC

VARIABLES
    plat,        \* the chat platform: channels, memberships, messages
    hist,        \* the client operations performed so far, with their outcomes
    env,         \* the process environment of a command run: token, documents, arguments
    all_phases,  \* the rows of the roadmap table (the input of the snapshot builder)
    snapshots,   \* what parse_roadmap_snapshots returned for all_phases
    repos,       \* the git logs of the repositories (the input of the collectors)
    daily,       \* what the collector returned for repos
    input,       \* the arguments of a side-effect-free function, as drawn
    output       \* what the function returned for input

vars == <<plat, hist, env, all_phases, snapshots, repos, daily, input, output>>

clientVars == <<plat, hist, env>>
roadmapVars == <<all_phases, snapshots>>
statsVars == <<repos, daily>>
pureVars == <<input, output>>

----------------------------------------------------------------------------
(* Bounds of the model *)

MaxCalls == 8          \* requests of one operation a transport fault can hit
MaxFaults == 2         \* transport faults in one operation
ListPage == 2          \* channels the platform returns per conversations.list page
HistPage == 2          \* messages the platform returns per conversations.history page
MaxMsgs == 3           \* messages in the channel before a delete operation
MaxPhases == 3         \* rows of the roadmap table
MaxCommits == 3        \* commits in the repositories' logs
MaxFaultAt == 4        \* the last request of a command's run that can meet a fault

GetUrlLimit == 2000    \* a chart URL of this length or more is made by a POST

----------------------------------------------------------------------------
(* Generic helpers *)

Min(a, b) == IF a < b THEN a ELSE b

Range(s) == {s[i] : i \in 1..Len(s)}

\* The element of a one-element set.  Only({ e(x) : x \in {v} }) is e(x) with
\* x bound to the value of v, which is then computed once.
Only(S) == CHOOSE x \in S : TRUE

None == "None"        \* Python's None, where a string is expected
NoExc == "none"       \* the operator returned without raising

----------------------------------------------------------------------------
(* The transport: which request of an operation gets which fault.  A tape  *)
(* is a set of at most MaxFaults slots at distinct positions; every other  *)
(* request is answered by the platform itself.                             *)

TransportErrors == {"HTTP 429", "HTTP 500"}

\* A tape gives each of MaxFaults faults its position (0: the fault does not
\* happen) and its error; the faults that happen come first, in the order of
\* their positions
TapesOver(errs) ==
    {t \in [1..MaxFaults -> [at : 0..MaxCalls, err : errs]] :
        /\ \A i \in 1..MaxFaults : t[i].at = 0 => t[i].err = CHOOSE e \in errs : TRUE
        /\ \A i \in 1..(MaxFaults - 1) :
              t[i + 1].at # 0 => (t[i].at # 0 /\ t[i].at < t[i + 1].at)}

TapeAt(tape, k) ==
    IF \E i \in DOMAIN tape : tape[i].at = k
    THEN tape[CHOOSE i \in DOMAIN tape : tape[i].at = k].err
    ELSE "ok"

----------------------------------------------------------------------------
(* The platform (Slack's Web API), as far as the client uses it.           *)
(* A channel is [name, id, public]; a channel that is not public (private, *)
(* or otherwise invisible to the bot) holds its name but is not listed.    *)

Payload == [name |-> "", channel |-> 0, cursor |-> 0, limit |-> 0, ts |-> 0, ms |-> 0]

OkResp == [ok |-> TRUE, error |-> "", id |-> 0, page |-> <<>>,
           next_cursor |-> 0, has_more |-> FALSE]

ErrResp(e) == [OkResp EXCEPT !.ok = FALSE, !.error = e]

PublicChannels(w) == SelectSeq(w.chans, LAMBDA c : c.public)

\* conversations.list: one page of the public channels, from cursor on
PlatformList(w, cursor) ==
    LET pub == PublicChannels(w)
        last == Min(cursor + ListPage, Len(pub))
    IN [w |-> w,
        resp |-> [OkResp EXCEPT !.page = SubSeq(pub, cursor + 1, last),
                                !.next_cursor = IF last < Len(pub) THEN last ELSE 0]]

\* conversations.create: name_taken when any channel holds the name
PlatformCreate(w, name) ==
    IF \E i \in 1..Len(w.chans) : w.chans[i].name = name
    THEN [w |-> w, resp |-> ErrResp("name_taken")]
    ELSE [w |-> [w EXCEPT !.chans = Append(@, [name |-> name, id |-> w.nextId,
                                                  public |-> TRUE]),
                          !.nextId = @ + 1],
          resp |-> [OkResp EXCEPT !.id = w.nextId]]

\* conversations.join
PlatformJoin(w, id) ==
    IF ~ \E i \in 1..Len(w.chans) : w.chans[i].id = id
    THEN [w |-> w, resp |-> ErrResp("channel_not_found")]
    ELSE IF id \in w.members
    THEN [w |-> w, resp |-> ErrResp("already_in_channel")]
    ELSE [w |-> [w EXCEPT !.members = @ \cup {id}], resp |-> OkResp]

\* chat.postMessage: the bot posts to a channel it is a member of
PlatformPost(w, ch) ==
    IF ~ \E i \in 1..Len(w.chans) : w.chans[i].id = ch
    THEN [w |-> w, resp |-> ErrResp("channel_not_found")]
    ELSE IF ch \notin w.members
    THEN [w |-> w, resp |-> ErrResp("not_in_channel")]
    ELSE [w |-> [w EXCEPT !.msgs = Append(@, [ch |-> ch, ts |-> w.nextTs,
                                                 bot |-> TRUE, own |-> TRUE]),
                          !.nextTs = @ + 1],
          resp |-> OkResp]

RECURSIVE Reverse(_)
Reverse(s) == IF s = <<>> THEN <<>> ELSE Append(Reverse(Tail(s)), Head(s))

\* conversations.history: the channel's messages, newest first, older than
\* the cursor (0: from the newest), at most limit a page, where the 100 a page
\* that the bulk delete asks for stand scaled down to HistPage
PlatformHistory(w, ch, limit, cursor) ==
    LET older == SelectSeq(w.msgs, LAMBDA m : m.ch = ch /\ (cursor = 0 \/ m.ts < cursor))
        newest == Reverse(older)
        n == Min(IF limit >= 100 THEN HistPage ELSE limit, Len(newest))
        page == SubSeq(newest, 1, n)
        more == n < Len(newest)
    IN [w |-> w,
        resp |-> [OkResp EXCEPT !.page = page, !.has_more = more,
                                !.next_cursor = IF more THEN page[n].ts ELSE 0]]

\* chat.delete: a bot deletes only the messages it posted itself
PlatformDelete(w, ch, ts) ==
    IF ~ \E i \in 1..Len(w.msgs) : w.msgs[i].ch = ch /\ w.msgs[i].ts = ts
    THEN [w |-> w, resp |-> ErrResp("message_not_found")]
    ELSE IF ~ \E i \in 1..Len(w.msgs) : w.msgs[i].ch = ch /\ w.msgs[i].ts = ts /\ w.msgs[i].own
    THEN [w |-> w, resp |-> ErrResp("cant_delete_message")]
    ELSE [w |-> [w EXCEPT !.msgs = SelectSeq(@, LAMBDA m : ~(m.ch = ch /\ m.ts = ts))],
          resp |-> OkResp]

PlatformResponse(w, method, p) ==
    CASE method = "conversations.list"    -> PlatformList(w, p.cursor)
      [] method = "conversations.create"  -> PlatformCreate(w, p.name)
      [] method = "conversations.join"    -> PlatformJoin(w, p.channel)
      [] method = "chat.postMessage"      -> PlatformPost(w, p.channel)
      [] method = "conversations.history" -> PlatformHistory(w, p.channel, p.limit, p.cursor)
      [] method = "chat.delete"           -> PlatformDelete(w, p.channel, p.ts)

\* A world: the platform, plus the log, the request counter and the tape of
\* the operation in progress
World(p, tape) ==
    [chans |-> p.chans, members |-> p.members, msgs |-> p.msgs,
     nextId |-> p.nextId, nextTs |-> p.nextTs,
     log |-> <<>>, calls |-> 0, tape |-> tape]

PlatformOf(w) ==
    [chans |-> w.chans, members |-> w.members, msgs |-> w.msgs,
     nextId |-> w.nextId, nextTs |-> w.nextTs]

----------------------------------------------------------------------------
(* lib/slack_client.py *)

TokenPrefix == <<"x", "o", "x", "b", "-">>

StartsWith(s, prefix) ==
    Len(s) >= Len(prefix) /\ SubSeq(s, 1, Len(prefix)) = prefix

\* _get_token: the token is a sequence of characters
get_token(token) ==
    IF token = <<>> THEN [exc |-> "EnvironmentError", ret |-> <<>>]
    ELSE IF ~StartsWith(token, TokenPrefix) THEN [exc |-> "ValueError", ret |-> <<>>]
    ELSE [exc |-> NoExc, ret |-> token]

\* slack_api: one request; an HTTP or URL error becomes a not-ok response
slack_api(w, method, p) ==
    Only({ IF TapeAt(w.tape, w1.calls) # "ok"
           THEN [w |-> w1, resp |-> ErrResp(TapeAt(w.tape, w1.calls))]
           ELSE PlatformResponse(w1, method, p)
         : w1 \in {[w EXCEPT !.calls = @ + 1,
                             !.log = Append(@, [ev |-> method, p |-> p])]} })

\* time.sleep
sleep(w, ms) == [w EXCEPT !.log = Append(@, [ev |-> "sleep", p |-> [Payload EXCEPT !.ms = ms]])]

Raise(w, type, error) == [w |-> w, exc |-> type, err |-> error, ret |-> <<>>]
Return(w, value) == [w |-> w, exc |-> NoExc, err |-> "", ret |-> value]

\* d[k] = v on a Python dict
Put(d, k, v) == [x \in DOMAIN d \cup {k} |-> IF x = k THEN v ELSE d[x]]

RECURSIVE PutChannels(_, _)
PutChannels(d, page) ==
    IF page = <<>> THEN d
    ELSE Only({ PutChannels(d2, Tail(page))
              : d2 \in {Put(d, Head(page).name, Head(page).id)} })

RECURSIVE list_channels_from(_, _, _)
list_channels_from(w, cursor, channels) ==
    Only({ IF ~r.resp.ok
           THEN Raise(r.w, "RuntimeError", r.resp.error)
           ELSE Only({ IF r.resp.next_cursor = 0
                       THEN Return(r.w, ch2)
                       ELSE list_channels_from(r.w, r.resp.next_cursor, ch2)
                     : ch2 \in {PutChannels(channels, r.resp.page)} })
         : r \in {slack_api(w, "conversations.list",
                            [Payload EXCEPT !.limit = 200, !.cursor = cursor])} })

list_channels(w) == list_channels_from(w, 0, <<>>)

create_channel(w, name) ==
    Only({ IF r.resp.ok THEN Return(r.w, r.resp.id)
           ELSE IF r.resp.error = "name_taken"
           THEN Only({ IF l.exc # NoExc THEN l
                       ELSE IF name \in DOMAIN l.ret THEN Return(l.w, l.ret[name])
                       ELSE Raise(l.w, "RuntimeError", "exists but not found in list")
                     : l \in {list_channels(r.w)} })
           ELSE Raise(r.w, "RuntimeError", r.resp.error)
         : r \in {slack_api(w, "conversations.create", [Payload EXCEPT !.name = name])} })

join_channel(w, channel_id) ==
    Only({ IF ~r.resp.ok /\ r.resp.error # "already_in_channel"
           THEN Raise(r.w, "RuntimeError", r.resp.error)
           ELSE Return(r.w, <<>>)
         : r \in {slack_api(w, "conversations.join",
                            [Payload EXCEPT !.channel = channel_id])} })

post_message(w, channel_id) ==
    Only({ IF ~r.resp.ok THEN Raise(r.w, "RuntimeError", r.resp.error)
           ELSE Return(r.w, <<>>)
         : r \in {slack_api(w, "chat.postMessage",
                            [Payload EXCEPT !.channel = channel_id])} })

\* The rest of ensure_channels once the channel id of names' head is known
RECURSIVE ensure_channels_loop(_, _, _, _)
ensure_channels_join(c, existing, names, result) ==
    IF c.exc # NoExc THEN c
    ELSE Only({ IF j.exc # NoExc THEN j
                ELSE Only({ ensure_channels_loop(j.w, existing, Tail(names), result2)
                          : result2 \in {Put(result, Head(names), c.ret)} })
              : j \in {join_channel(c.w, c.ret)} })

\* ensure_channels without the look-up in the listed channels
ensure_channels_loop_always_creates(w, existing, names, result) ==
    IF names = <<>> THEN Return(w, result)
    ELSE Only({ ensure_channels_join(c, existing, names, result)
              : c \in {create_channel(w, Head(names))} })

ensure_channels_loop(w, existing, names, result) ==
    IF names = <<>> THEN Return(w, result)
    ELSE Only({ ensure_channels_join(c, existing, names, result)
              : c \in {IF Head(names) \in DOMAIN existing
                       THEN Return(w, existing[Head(names)])
                       ELSE create_channel(w, Head(names))} })

ensure_channels(w, channel_names) ==
    Only({ IF l.exc # NoExc THEN l
           ELSE ensure_channels_loop(l.w, l.ret, channel_names, <<>>)
         : l \in {list_channels(w)} })

\* delete_message: the error of the response is the text of the exception
delete_message(w, channel_id, ts) ==
    Only({ IF ~r.resp.ok THEN Raise(r.w, "RuntimeError", r.resp.error)
           ELSE Return(r.w, <<>>)
         : r \in {slack_api(w, "chat.delete",
                            [Payload EXCEPT !.channel = channel_id, !.ts = ts])} })

\* A filter that takes every message of the page for a bot's
IsAnyMessage(m) == TRUE

\* m.get("bot_id") or m.get("subtype") == "bot_message"
IsBotMessage(m) == m.bot

\* "429" in str(e), over the errors a response can carry
Contains429(error) == error \in {"HTTP 429"}

\* One message of the for loop of delete_all_bot_messages: the counters after it
delete_one(w, channel_id, ts, deleted, skipped) ==
    Only({ IF d.exc = NoExc
           THEN [w |-> sleep(d.w, 300), deleted |-> deleted + 1, skipped |-> skipped]
           ELSE IF Contains429(d.err)
           THEN Only({ IF again.exc = NoExc
                       THEN [w |-> again.w, deleted |-> deleted + 1, skipped |-> skipped]
                       ELSE [w |-> again.w, deleted |-> deleted, skipped |-> skipped + 1]
                     : again \in {delete_message(sleep(d.w, 3000), channel_id, ts)} })
           ELSE [w |-> d.w, deleted |-> deleted, skipped |-> skipped + 1]
         : d \in {delete_message(w, channel_id, ts)} })

\* The for loop of delete_all_bot_messages over one page's bot messages
RECURSIVE delete_page(_, _, _, _, _)
delete_page(w, channel_id, bot_messages, deleted, skipped) ==
    IF bot_messages = <<>>
    THEN [w |-> w, deleted |-> deleted, skipped |-> skipped]
    ELSE Only({ delete_page(one.w, channel_id, Tail(bot_messages), one.deleted, one.skipped)
              : one \in {delete_one(w, channel_id, Head(bot_messages).ts, deleted, skipped)} })

\* The while loop of delete_all_bot_messages; skipped is the function's local
\* counter, kept beside what it returns (deleted)
RECURSIVE delete_all_from(_, _, _, _, _)
delete_all_from(w, channel_id, cursor, deleted, skipped) ==
    Only({ IF ~r.resp.ok
           THEN Raise(r.w, "RuntimeError", r.resp.error) @@ [skipped |-> skipped]
           ELSE IF SelectSeq(r.resp.page, IsBotMessage) = <<>> /\ ~r.resp.has_more
           THEN Return(r.w, deleted) @@ [skipped |-> skipped]
           ELSE Only({ IF r.resp.next_cursor = 0
                       THEN Return(pg.w, pg.deleted) @@ [skipped |-> pg.skipped]
                       ELSE delete_all_from(pg.w, channel_id, r.resp.next_cursor,
                                            pg.deleted, pg.skipped)
                     : pg \in {delete_page(r.w, channel_id,
                                           SelectSeq(r.resp.page, IsBotMessage),
                                           deleted, skipped)} })
         : r \in {slack_api(w, "conversations.history",
                            [Payload EXCEPT !.channel = channel_id, !.limit = 100,
                                            !.cursor = cursor])} })

delete_all_bot_messages(w, channel_id) == delete_all_from(w, channel_id, 0, 0, 0)

----------------------------------------------------------------------------
(* The client's channel operations, called in succession on one platform   *)

Unused == <<>>

ChannelNames == {"dev-roadmap", "coding-stats"}

NameLists == {<<>>} \cup {<<a>> : a \in ChannelNames}
                    \cup {<<a, b>> : a \in ChannelNames, b \in ChannelNames}

\* A workspace with #general, where each configured name is free, held by a
\* public channel, or held by a channel the bot cannot list
NameStates == [ChannelNames -> {"free", "public", "hidden"}]

RECURSIVE ChannelsFor(_, _, _)
ChannelsFor(st, names, id) ==
    IF names = <<>> THEN <<>>
    ELSE IF st[Head(names)] = "free" THEN ChannelsFor(st, Tail(names), id)
    ELSE <<[name |-> Head(names), id |-> id, public |-> st[Head(names)] = "public"]>>
         \o ChannelsFor(st, Tail(names), id + 1)

InitialPlatform(st) ==
    LET chans == <<[name |-> "general", id |-> 1, public |-> TRUE]>>
                 \o ChannelsFor(st, <<"dev-roadmap", "coding-stats">>, 2)
    IN [chans |-> chans, members |-> {}, msgs |-> <<>>,
        nextId |-> Len(chans) + 1, nextTs |-> 1]

\* Every transport fault ends a channel operation the same way
ChannelTapes == TapesOver({"HTTP 500"})

Outcome(fn, names, r) ==
    [fn |-> fn, names |-> names, exc |-> r.exc, err |-> r.err, ret |-> r.ret,
     log |-> r.w.log, nchans |-> Len(r.w.chans)]

InitChannels ==
    /\ plat \in {InitialPlatform(st) : st \in NameStates}
    /\ hist = <<>>
    /\ env = Unused
    /\ all_phases = Unused /\ snapshots = Unused
    /\ repos = Unused /\ daily = Unused
    /\ input = Unused /\ output = Unused

EnsureChannels ==
    /\ Len(hist) < 2
    /\ \E names \in NameLists, tape \in ChannelTapes :
          \E r \in {ensure_channels(World(plat, tape), names)} :
             /\ plat' = PlatformOf(r.w)
             /\ hist' = Append(hist, Outcome("ensure_channels", names, r))
    /\ UNCHANGED <<env, roadmapVars, statsVars, pureVars>>

CreateChannel ==
    /\ Len(hist) < 2
    /\ \E name \in ChannelNames, tape \in ChannelTapes :
          \E r \in {create_channel(World(plat, tape), name)} :
             /\ plat' = PlatformOf(r.w)
             /\ hist' = Append(hist, Outcome("create_channel", <<name>>, r))
    /\ UNCHANGED <<env, roadmapVars, statsVars, pureVars>>

NextChannels == EnsureChannels \/ CreateChannel

SpecChannels == InitChannels /\ [][NextChannels]_vars

Requests(log, method) == {i \in 1..Len(log) : log[i].ev = method}

AnsweredNameTaken(h) ==
    /\ h.fn = "create_channel"
    /\ Requests(h.log, "conversations.list") # {}

\* C19 as claimed: whenever the platform answers name_taken, create_channel
\* does not raise and returns the identifier of the channel that holds the
\* name (a request that the transport fails is left aside).
C19_NameTakenIsSuccess ==
    \A i \in 1..Len(hist) :
        (AnsweredNameTaken(hist[i]) /\ hist[i].err # "HTTP 500")
        => /\ hist[i].exc = NoExc
           /\ \E c \in Range(plat.chans) :
                 c.name = hist[i].names[1] /\ c.id = hist[i].ret

\* What the code does keep of it: when the channel that holds the name is one
\* that conversations.list returns (a public channel), create_channel
\* returns its identifier; for any other it raises RuntimeError.
C19_NameTakenOfListedChannelIsSuccess ==
    \A i \in 1..Len(hist) :
        (AnsweredNameTaken(hist[i]) /\ hist[i].err # "HTTP 500")
        => \E c \in Range(plat.chans) :
              /\ c.name = hist[i].names[1]
              /\ IF c.public THEN hist[i].exc = NoExc /\ hist[i].ret = c.id
                 ELSE hist[i].exc = "RuntimeError"

----------------------------------------------------------------------------
(* Bulk delete on a channel holding human messages, the bot's own messages *)
(* and messages of other integrations                                      *)

MessageKinds == {"human", "own", "other"}

RECURSIVE MessagesOf(_, _)
MessagesOf(kinds, ts) ==
    IF kinds = <<>> THEN <<>>
    ELSE <<[ch |-> 1, ts |-> ts, bot |-> Head(kinds) # "human",
            own |-> Head(kinds) = "own"]>> \o MessagesOf(Tail(kinds), ts + 1)

KindLists == UNION {[1..n -> MessageKinds] : n \in 0..MaxMsgs}

ChannelWith(kinds) ==
    [chans |-> <<[name |-> "dev-roadmap", id |-> 1, public |-> TRUE]>>,
     members |-> {1}, msgs |-> MessagesOf(kinds, 1),
     nextId |-> 2, nextTs |-> Len(kinds) + 1]

DeleteTapes == TapesOver(TransportErrors)

InitDelete ==
    /\ plat \in {ChannelWith(kinds) : kinds \in KindLists}
    /\ hist = <<>>
    /\ env = Unused
    /\ all_phases = Unused /\ snapshots = Unused
    /\ repos = Unused /\ daily = Unused
    /\ input = Unused /\ output = Unused

DeleteAllBotMessages ==
    /\ hist = <<>>
    /\ \E tape \in DeleteTapes :
          \E r \in {delete_all_bot_messages(World(plat, tape), 1)} :
             /\ plat' = PlatformOf(r.w)
             /\ hist' = <<[fn |-> "delete_all_bot_messages", before |-> plat.msgs,
                           tape |-> tape, exc |-> r.exc, err |-> r.err, ret |-> r.ret,
                           skipped |-> r.skipped, log |-> r.w.log]>>
    /\ UNCHANGED <<env, roadmapVars, statsVars, pureVars>>

NextDelete == DeleteAllBotMessages

SpecDelete == InitDelete /\ [][NextDelete]_vars

\* The response the k-th request of a logged operation received from the
\* transport ("ok": the platform answered it)
Fault(h, k) == TapeAt(h.tape, k)

\* The positions in the log of the requests (sleeps left out), in order
RequestAt(log, k) ==
    CHOOSE i \in 1..Len(log) :
        /\ log[i].ev # "sleep"
        /\ Cardinality({j \in 1..i : log[j].ev # "sleep"}) = k

NumRequests(log) == Cardinality({j \in 1..Len(log) : log[j].ev # "sleep"})

\* A rate-limited first delete attempt is followed by a 3 s sleep and one more
\* delete of the same message, and by no third one
RetriedOnce(h) ==
    \A k \in 1..NumRequests(h.log) :
        LET i == RequestAt(h.log, k)
            ts == h.log[i].p.ts
            firstAttempt == \A j \in 1..(i - 1) :
                               ~(h.log[j].ev = "chat.delete" /\ h.log[j].p.ts = ts)
        IN (h.log[i].ev = "chat.delete" /\ firstAttempt /\ Contains429(Fault(h, k)))
           => /\ i + 2 <= Len(h.log)
              /\ h.log[i + 1].ev = "sleep" /\ h.log[i + 1].p.ms = 3000
              /\ h.log[i + 2].ev = "chat.delete" /\ h.log[i + 2].p.ts = ts
              /\ Cardinality({j \in 1..Len(h.log) :
                       h.log[j].ev = "chat.delete" /\ h.log[j].p.ts = ts}) = 2

\* C2: in delete_all_bot_messages a rate-limited delete is retried exactly once
\* after a sleep, and no rate-limit response, whichever request receives it,
\* is raised to the caller.
C2_RateLimitNeverRaised ==
    \A i \in 1..Len(hist) :
        hist[i].fn = "delete_all_bot_messages"
        => /\ RetriedOnce(hist[i])
           /\ ~(hist[i].exc # NoExc /\ Contains429(hist[i].err))

\* The part of C2 about the delete requests alone, which the code keeps
C2_DeleteRetriedOnce ==
    \A i \in 1..Len(hist) :
        hist[i].fn = "delete_all_bot_messages" => RetriedOnce(hist[i])


\* Two delete requests of an operation with no other delete request between
ConsecutiveDeletes(log) ==
    {kl \in Requests(log, "chat.delete") \X Requests(log, "chat.delete") :
        /\ kl[1] < kl[2]
        /\ \A j \in (kl[1] + 1)..(kl[2] - 1) : log[j].ev # "chat.delete"}

Slept(log, k, l) == \E j \in (k + 1)..(l - 1) : log[j].ev = "sleep"

\* C25 as claimed: in the bulk delete the operation sleeps between any two
\* consecutive delete requests, whatever the outcome of the earlier one
\* (deleted at once, deleted by the retry, failed retry, or skipped).
C25_DelayBetweenAnyTwoDeletes ==
    \A i \in 1..Len(hist) :
        hist[i].fn = "delete_all_bot_messages" =>
            \A kl \in ConsecutiveDeletes(hist[i].log) :
                Slept(hist[i].log, kl[1], kl[2])

\* The request at position i of the log is the second delete of its message
IsRetry(log, i) ==
    \E j \in 1..(i - 1) : log[j].ev = "chat.delete" /\ log[j].p.ts = log[i].p.ts

\* The number of the request at position i of the log
RequestNumber(log, i) == Cardinality({j \in 1..i : log[j].ev # "sleep"})

\* The delete request at position i of the log of h was answered ok
Deleted(h, i) ==
    /\ Fault(h, RequestNumber(h.log, i)) = "ok"
    /\ \E k \in 1..Len(h.before) : h.before[k].ts = h.log[i].p.ts /\ h.before[k].own

\* What the code does keep of it: 0.3 s of sleep follow a delete that succeeds
\* at the first attempt, and 3 s follow a rate-limited first attempt; nothing
\* follows a retry, whatever its outcome, nor a delete that is skipped.
C25_DelayAfterFirstAttemptsOnly ==
    \A i \in 1..Len(hist) :
        hist[i].fn = "delete_all_bot_messages" =>
            \A k \in Requests(hist[i].log, "chat.delete") :
                \A after \in {IF k < Len(hist[i].log) THEN hist[i].log[k + 1].ev ELSE "end"} :
                    IF IsRetry(hist[i].log, k) THEN after # "sleep"
                    ELSE IF Deleted(hist[i], k)
                    THEN after = "sleep" /\ hist[i].log[k + 1].p.ms = 300
                    ELSE IF Contains429(Fault(hist[i], RequestNumber(hist[i].log, k)))
                    THEN after = "sleep" /\ hist[i].log[k + 1].p.ms = 3000
                    ELSE after # "sleep"


\* The delete requests of an operation for the message ts
DeletesOf(log, ts) == {k \in Requests(log, "chat.delete") : log[k].p.ts = ts}

Timestamps(msgs) == {msgs[k].ts : k \in 1..Len(msgs)}

\* The ts of the bot-authored messages (the bot's own or another integration's)
BotAuthored(msgs) == {msgs[k].ts : k \in {j \in 1..Len(msgs) : msgs[j].bot}}

\* C28: when delete_all_bot_messages returns it has walked every page of the
\* history: each bot-authored message of the channel got one or two delete
\* requests, no other message got any, each bot-authored message is either
\* deleted or counted as skipped, once, and the value returned is the number
\* of messages deleted.
C28_EveryBotMessageDeletedOrSkipped ==
    \A i \in 1..Len(hist) :
        (hist[i].fn = "delete_all_bot_messages" /\ hist[i].exc = NoExc) =>
            \A bots \in {BotAuthored(hist[i].before)},
               left \in {Timestamps(plat.msgs)} :
                /\ \A ts \in bots : Cardinality(DeletesOf(hist[i].log, ts)) \in {1, 2}
                /\ \A k \in Requests(hist[i].log, "chat.delete") :
                      hist[i].log[k].p.ts \in bots
                /\ hist[i].ret = Cardinality(bots \ left)
                /\ hist[i].skipped = Cardinality(bots \cap left)
                /\ Timestamps(hist[i].before) \ left \subseteq bots
                /\ Requests(hist[i].log, "conversations.history") # {}

\* A channel with a message of the bot, one of another integration and one of
\* a person, where the first delete is rate limited and retried: one deleted,
\* one skipped, three delete requests
C28_Witness ==
    /\ Len(hist) = 1
    /\ hist[1].fn = "delete_all_bot_messages" /\ hist[1].exc = NoExc
    /\ Cardinality(BotAuthored(hist[1].before)) = 2
    /\ Len(hist[1].before) = 3
    /\ hist[1].ret = 1 /\ hist[1].skipped = 1
    /\ Cardinality(Requests(hist[1].log, "chat.delete")) = 3
    /\ Cardinality(Requests(hist[1].log, "conversations.history")) = 2

----------------------------------------------------------------------------
(* lib/parsers.py: the roadmap snapshot builder.  A string that the code   *)
(* compares or sorts is the sequence of its characters' code points.       *)

Digit(n) == 48 + n

\* The text "YYYY-MM-DD" of a calendar date
IsoDate(y, m, d) ==
    <<Digit(y \div 1000), Digit((y \div 100) % 10), Digit((y \div 10) % 10), Digit(y % 10),
      45, Digit(m \div 10), Digit(m % 10), 45, Digit(d \div 10), Digit(d % 10)>>

EmDash == <<8212>>
TBD == <<84, 66, 68>>
EmptyString == <<>>

\* date not in ("—", "TBD", "")
IsSentinel(date) == date \in {EmDash, TBD, EmptyString}

\* a < b on Python strings: by code point, a proper prefix first
RECURSIVE StrLess(_, _)
StrLess(a, b) ==
    IF b = <<>> THEN FALSE
    ELSE IF a = <<>> THEN TRUE
    ELSE IF Head(a) # Head(b) THEN Head(a) < Head(b)
    ELSE StrLess(Tail(a), Tail(b))

\* The keys of dates_seen: the dates of the COMPLETE phases, sentinels left out
DatesSeen(phases) ==
    {phases[i].date : i \in {j \in 1..Len(phases) :
                               phases[j].status = "COMPLETE" /\ ~IsSentinel(phases[j].date)}}

\* dates_seen[date]: the phases shipped on date, in table order
ShippedOn(phases, date) ==
    SelectSeq(phases, LAMBDA p : p.status = "COMPLETE" /\ p.date = date)

\* The dates in the order the table first names them (no sort)
RECURSIVE FirstSeenOrder(_, _)
FirstSeenOrder(phases, seen) ==
    IF phases = <<>> THEN <<>>
    ELSE IF Head(phases).status = "COMPLETE" /\ ~IsSentinel(Head(phases).date)
            /\ Head(phases).date \notin seen
    THEN <<Head(phases).date>> \o FirstSeenOrder(Tail(phases), seen \cup {Head(phases).date})
    ELSE FirstSeenOrder(Tail(phases), seen)

\* sorted(...) on a set of strings
RECURSIVE SortStrings(_)
SortStrings(S) ==
    IF S = {} THEN <<>>
    ELSE Only({ <<least>> \o SortStrings(S \ {least})
              : least \in {CHOOSE x \in S : \A y \in S \ {x} : StrLess(x, y)} })

UnsortedDates(phases) == FirstSeenOrder(phases, {})

\* sorted(dates_seen.items()): the keys are distinct, so they decide the order
SortedDates(phases) == SortStrings(DatesSeen(phases))

PhaseNumbers(shipped) == {shipped[i].number : i \in 1..Len(shipped)}

\* The snapshot's phase list without the demotion of a not yet completed phase
SnapshotPhasesNoDemotion(phases, cumulative_completed) ==
    [i \in 1..Len(phases) |->
        IF phases[i].number \in cumulative_completed
        THEN [phases[i] EXCEPT !.status = "COMPLETE"]
        ELSE phases[i]]

\* The status overrides of one snapshot
SnapshotPhases(phases, cumulative_completed) ==
    [i \in 1..Len(phases) |->
        IF phases[i].number \in cumulative_completed
        THEN [phases[i] EXCEPT !.status = "COMPLETE"]
        ELSE IF phases[i].status = "COMPLETE"
        THEN [phases[i] EXCEPT !.status = "PENDING"]
        ELSE phases[i]]

\* The first PENDING or PLANNED phase: <<>> for None
RECURSIVE NextPlanned(_)
NextPlanned(snapshot_phases) ==
    IF snapshot_phases = <<>> THEN <<>>
    ELSE IF Head(snapshot_phases).status \in {"PENDING", "PLANNED"}
    THEN <<[number |-> Head(snapshot_phases).number, name |-> Head(snapshot_phases).name]>>
    ELSE NextPlanned(Tail(snapshot_phases))

\* The loop over the sorted dates; date_display (format_date of the date) is
\* a display text and is left out of the snapshot
RECURSIVE BuildSnapshots(_, _, _)
BuildSnapshots(phases, dates, cumulative_completed) ==
    IF dates = <<>> THEN <<>>
    ELSE Only({ Only({ <<[date |-> Head(dates),
                          phases |-> sp,
                          completed_count |-> Cardinality(cum),
                          total_count |-> Len(phases),
                          next_planned |-> NextPlanned(sp),
                          shipped_phases |-> ShippedOn(phases, Head(dates))]>>
                       \o BuildSnapshots(phases, Tail(dates), cum)
                     : sp \in {SnapshotPhases(phases, cum)} })
              : cum \in {cumulative_completed
                         \cup PhaseNumbers(ShippedOn(phases, Head(dates)))} })

parse_roadmap_snapshots(phases) == BuildSnapshots(phases, SortedDates(phases), {})

----------------------------------------------------------------------------
(* Roadmap tables of up to MaxPhases rows, and their snapshots             *)

Date1 == IsoDate(2026, 1, 31)
Date2 == IsoDate(2026, 2, 1)
Date3 == IsoDate(2026, 2, 10)

\* A row of the table: the date of a phase that is not COMPLETE is not read
PhaseRows ==
    [number : {1, 2}, name : {"Phase"}, status : {"COMPLETE"},
     date : {Date1, Date2, Date3, EmDash, TBD, EmptyString}]
    \cup [number : {1, 2}, name : {"Phase"}, status : {"PLANNED"}, date : {TBD}]
    \cup [number : {1, 2}, name : {"Phase"}, status : {"PENDING", "IN PROGRESS"},
          date : {EmDash}]

InitRoadmap ==
    /\ all_phases = <<>>
    /\ snapshots = [called |-> FALSE, ret |-> <<>>]
    /\ plat = Unused /\ hist = Unused /\ env = Unused
    /\ repos = Unused /\ daily = Unused
    /\ input = Unused /\ output = Unused

\* One more row in ROADMAP.md
AddPhase ==
    /\ ~snapshots.called
    /\ Len(all_phases) < MaxPhases
    /\ \E row \in PhaseRows : all_phases' = Append(all_phases, row)
    /\ UNCHANGED <<snapshots, clientVars, statsVars, pureVars>>

ParseRoadmapSnapshots ==
    /\ ~snapshots.called
    /\ snapshots' = [called |-> TRUE, ret |-> parse_roadmap_snapshots(all_phases)]
    /\ UNCHANGED <<all_phases, clientVars, statsVars, pureVars>>

NextRoadmap == AddPhase \/ ParseRoadmapSnapshots

SpecRoadmap == InitRoadmap /\ [][NextRoadmap]_vars

\* The calendar day an ISO date text names, as a number that orders days
DayNumber(date) ==
    ((date[1] - 48) * 1000 + (date[2] - 48) * 100 + (date[3] - 48) * 10 + (date[4] - 48)) * 10000
    + ((date[6] - 48) * 10 + (date[7] - 48)) * 100
    + (date[9] - 48) * 10 + (date[10] - 48)

\* The rows that are COMPLETE with a real date
DatedComplete(phases) ==
    {i \in 1..Len(phases) : phases[i].status = "COMPLETE" /\ ~IsSentinel(phases[i].date)}

\* C5: a roadmap whose COMPLETE phases carry K distinct non-sentinel dates gives
\* exactly K snapshots, in ascending order of the calendar date, and
\* completed_count never decreases from one snapshot to the next.
C5_SnapshotsPerDateAscending ==
    snapshots.called =>
        LET ret == snapshots.ret
        IN /\ Len(ret) = Cardinality({all_phases[i].date : i \in DatedComplete(all_phases)})
           /\ \A i \in 1..(Len(ret) - 1) :
                 /\ DayNumber(ret[i].date) < DayNumber(ret[i + 1].date)
                 /\ ret[i].completed_count <= ret[i + 1].completed_count

\* Three dates, named by the table in descending order
C5_Witness ==
    /\ snapshots.called
    /\ Len(snapshots.ret) = 3
    /\ all_phases[1].date = Date3 /\ all_phases[3].date = Date1

\* C6: the last snapshot's completed_count is the number of rows that are
\* COMPLETE with a non-sentinel date, also when phase numbers repeat.
C6_LastCountIsDatedComplete ==
    (snapshots.called /\ snapshots.ret # <<>>)
        => snapshots.ret[Len(snapshots.ret)].completed_count
               = Cardinality(DatedComplete(all_phases))

\* The rows completed on or before the date of a snapshot
CompletedBy(phases, date) ==
    {i \in DatedComplete(phases) : DayNumber(phases[i].date) <= DayNumber(date)}

\* C7 as claimed: in the snapshot for date D every phase completed on or before
\* D is COMPLETE and every other phase is PENDING.
C7_OthersAllPending ==
    snapshots.called =>
        \A s \in 1..Len(snapshots.ret) : \A i \in 1..Len(all_phases) :
            snapshots.ret[s].phases[i].status
                = IF i \in CompletedBy(all_phases, snapshots.ret[s].date)
                  THEN "COMPLETE" ELSE "PENDING"

\* C7 as amended: in the snapshot for date D a phase is COMPLETE when its number
\* is the number of a phase completed on or before D; any other phase recorded
\* COMPLETE is PENDING; every other phase keeps its recorded status.
C7_OnlyCompleteDemoted ==
    snapshots.called =>
        \A s \in 1..Len(snapshots.ret) : \A i \in 1..Len(all_phases) :
            snapshots.ret[s].phases[i].status
                = IF \E j \in CompletedBy(all_phases, snapshots.ret[s].date) :
                        all_phases[j].number = all_phases[i].number
                  THEN "COMPLETE"
                  ELSE IF all_phases[i].status = "COMPLETE" THEN "PENDING"
                  ELSE all_phases[i].status

\* A first snapshot in which a phase completed later is PENDING and a PLANNED
\* phase is still PLANNED
C7_Witness ==
    /\ snapshots.called /\ Len(snapshots.ret) = 2 /\ Len(all_phases) = 3
    /\ \E i, j \in 1..3 :
          /\ all_phases[i].status = "COMPLETE" /\ snapshots.ret[1].phases[i].status = "PENDING"
          /\ all_phases[j].status = "PLANNED" /\ snapshots.ret[1].phases[j].status = "PLANNED"

----------------------------------------------------------------------------
(* lib/stats/git_collector.py: classification of a commit.  A subject or   *)
(* path is a string; Len, SubSeq and \o read it as its characters.         *)

UpperCase == "ABCDEFGHIJKLMNOPQRSTUVWXYZ"
LowerCase == "abcdefghijklmnopqrstuvwxyz"
Digits == "0123456789"

CharAt(s, i) == SubSeq(s, i, i)

HasChar(alphabet, ch) == \E i \in 1..Len(alphabet) : CharAt(alphabet, i) = ch

\* re.I: a letter matches in either case
LowerChar(ch) ==
    IF HasChar(UpperCase, ch)
    THEN CharAt(LowerCase, CHOOSE i \in 1..Len(UpperCase) : CharAt(UpperCase, i) = ch)
    ELSE ch

RECURSIVE Lower(_)
Lower(s) ==
    IF Len(s) = 0 THEN ""
    ELSE LowerChar(CharAt(s, 1)) \o Lower(SubSeq(s, 2, Len(s)))

\* \w of a regular expression
IsWordChar(ch) ==
    HasChar(UpperCase, ch) \/ HasChar(LowerCase, ch) \/ HasChar(Digits, ch) \/ ch = "_"

\* ^word\b: the text starts with the word and the word ends there
StartsWithWord(s, word) ==
    /\ StartsWith(s, word)
    /\ Len(s) = Len(word) \/ ~IsWordChar(CharAt(s, Len(word) + 1))

\* the text occurs somewhere in s
Contains(s, text) ==
    \E i \in 1..(Len(s) - Len(text) + 1) : SubSeq(s, i, i + Len(text) - 1) = text

\* text$
EndsWith(s, text) ==
    Len(s) >= Len(text) /\ SubSeq(s, Len(s) - Len(text) + 1, Len(s)) = text

\* _TYPE_RULES, in order, each as a predicate on the lower-cased subject
TypeRule(n, s) ==
    CASE n = 1 -> \E w \in {"fix", "bugfix", "hotfix"} : StartsWithWord(s, w)
      [] n = 2 -> StartsWithWord(s, "refactor")
      [] n = 3 -> \/ \E w \in {"deploy", "provision"} : StartsWith(s, w)
                  \/ \E w \in {"infra", "gcp", "cloud run", "cloud build", "cloud sql",
                               "setup-gcp"} : Contains(s, w)
      [] n = 4 -> \/ \E w \in {"readme", "changelog", "roadmap", "features"} : Contains(s, w)
                  \/ EndsWith(s, ".md")
                  \/ \E w \in {"update docs", "add docs", "documentation"} : StartsWith(s, w)
      [] n = 5 -> StartsWithWord(s, "ignore") \/ StartsWith(s, ".gitignore")
      [] n = 6 -> StartsWithWord(s, "merge")
      [] n = 7 -> \E w \in {"add", "create", "implement", "build", "wire", "set up", "seed"} :
                      StartsWithWord(s, w)
      [] n = 8 -> \E w \in {"update", "enhance", "improve", "bump", "upgrade"} :
                      StartsWithWord(s, w)

TypeTags == <<"bugfix", "refactor", "infra", "docs", None, None, "feature", "update">>

\* A classifier in which the last rule that matches decides
classify_commit_last_match(subject) ==
    Only({ IF \E n \in 1..Len(TypeTags) : TypeRule(n, s)
           THEN TypeTags[CHOOSE n \in 1..Len(TypeTags) :
                             TypeRule(n, s) /\ \A k \in (n + 1)..Len(TypeTags) : ~TypeRule(k, s)]
           ELSE "feature"
         : s \in {Lower(subject)} })

\* _classify_commit: the tag of the first rule that matches, else "feature"
classify_commit(subject) ==
    Only({ IF \E n \in 1..Len(TypeTags) : TypeRule(n, s)
           THEN TypeTags[CHOOSE n \in 1..Len(TypeTags) :
                             TypeRule(n, s) /\ \A k \in 1..(n - 1) : ~TypeRule(k, s)]
           ELSE "feature"
         : s \in {Lower(subject)} })

\* _WORKSPACE_PATH_RULES, in order (these are case-sensitive)
PathRule(n, fp) ==
    CASE n = 1 -> StartsWith(fp, "scripts/")
      [] n = 2 -> StartsWith(fp, "infra/")
      [] n = 3 -> StartsWith(fp, "docs/")
      [] n = 4 -> StartsWith(fp, ".claude/")
      [] n = 5 -> fp = ".gitignore"
      [] n = 6 -> fp = "CLAUDE.md"

PathTags == <<"tools", "infra", "docs", None, None, None>>

\* The tags one file adds to the set: none for a skipped file
PathTagsOf(repo_name, fp) ==
    IF \E n \in 1..Len(PathTags) : PathRule(n, fp)
    THEN {PathTags[CHOOSE n \in 1..Len(PathTags) :
                       PathRule(n, fp) /\ \A k \in 1..(n - 1) : ~PathRule(k, fp)]} \ {None}
    ELSE {repo_name}

\* A classifier that skips the commit as soon as one of its files is skipped
classify_project_any_skipped(repo_name, file_paths, workspace_repo) ==
    IF workspace_repo # None /\ workspace_repo # "" /\ repo_name = workspace_repo
    THEN Only({ IF tags = {} \/ \E i \in 1..Len(file_paths) :
                                  PathTagsOf(repo_name, file_paths[i]) = {}
                THEN None
                ELSE IF "tools" \in tags THEN "tools"
                ELSE IF "infra" \in tags THEN "infra"
                ELSE IF "docs" \in tags THEN "docs"
                ELSE repo_name
              : tags \in {UNION {PathTagsOf(repo_name, file_paths[i]) :
                                   i \in 1..Len(file_paths)}} })
    ELSE repo_name

\* A classifier that gives the repository's name to a workspace commit
\* without any tag
classify_project_untagged_by_repo(repo_name, file_paths, workspace_repo) ==
    IF workspace_repo # None /\ workspace_repo # "" /\ repo_name = workspace_repo
    THEN Only({ IF "tools" \in tags THEN "tools"
                ELSE IF "infra" \in tags THEN "infra"
                ELSE IF "docs" \in tags THEN "docs"
                ELSE repo_name
              : tags \in {UNION {PathTagsOf(repo_name, file_paths[i]) :
                                   i \in 1..Len(file_paths)}} })
    ELSE repo_name

\* _classify_project; workspace_repo is None when path rules never apply
classify_project(repo_name, file_paths, workspace_repo) ==
    IF workspace_repo # None /\ workspace_repo # "" /\ repo_name = workspace_repo
    THEN Only({ IF tags = {} THEN None
                ELSE IF "tools" \in tags THEN "tools"
                ELSE IF "infra" \in tags THEN "infra"
                ELSE IF "docs" \in tags THEN "docs"
                ELSE repo_name
              : tags \in {UNION {PathTagsOf(repo_name, file_paths[i]) :
                                   i \in 1..Len(file_paths)}} })
    ELSE repo_name

----------------------------------------------------------------------------
(* lib/stats/git_collector.py: from the git logs to the daily stats        *)

\* _parse_git_log: a commit of the log with its numstat lines summed; a binary
\* file's "-" counts add nothing.  The hash is read but never used.
RECURSIVE SumNumstat(_, _)
SumNumstat(numstat, column) ==
    IF numstat = <<>> THEN 0
    ELSE (IF Head(numstat).binary THEN 0
          ELSE IF column = "added" THEN Head(numstat).added ELSE Head(numstat).deleted)
         + SumNumstat(Tail(numstat), column)

ParseCommit(entry) ==
    [date |-> entry.date, dow |-> entry.dow, hour |-> entry.hour,
     author |-> entry.author, subject |-> entry.subject,
     added |-> SumNumstat(entry.numstat, "added"),
     deleted |-> SumNumstat(entry.numstat, "deleted"),
     files |-> [i \in 1..Len(entry.numstat) |-> entry.numstat[i].path]]

\* git log lists the newest commit first
parse_git_log(log) == [i \in 1..Len(log) |-> ParseCommit(log[Len(log) + 1 - i])]

\* kept_files of one commit
KeptFiles(files, exclude_paths) ==
    SelectSeq(files, LAMBDA f : ~\E k \in 1..Len(exclude_paths) : StartsWith(f, exclude_paths[k]))

RECURSIVE filter_excluded_paths(_, _)
filter_excluded_paths(commits, exclude_paths) ==
    IF exclude_paths = <<>> THEN commits
    ELSE IF commits = <<>> THEN <<>>
    ELSE Only({ (IF c.files = <<>> THEN <<c>>
                 ELSE IF kept_files = <<>> THEN <<>>
                 ELSE <<[c EXCEPT !.files = kept_files]>>)
                \o filter_excluded_paths(Tail(commits), exclude_paths)
              : c \in {Head(commits)},
                kept_files \in {KeptFiles(Head(commits).files, exclude_paths)} })

\* The tagging loop of the collectors
TagCommit(c, repo_name, workspace_repo) ==
    [date |-> c.date, dow |-> c.dow, hour |-> c.hour, author |-> c.author,
     subject |-> c.subject, added |-> c.added, deleted |-> c.deleted, files |-> c.files,
     commit_type |-> classify_commit(c.subject),
     project_tag |-> classify_project(repo_name, c.files, workspace_repo),
     repo_name |-> repo_name]

\* A filter that keeps a commit one of whose tags is set
IsRetainedEitherTag(c) == (c.commit_type # None /\ c.commit_type # "")
                          \/ (c.project_tag # None /\ c.project_tag # "")

\* if c["commit_type"] and c["project_tag"]
IsRetained(c) == /\ c.commit_type # None /\ c.commit_type # ""
                 /\ c.project_tag # None /\ c.project_tag # ""

\* One repository's commits, as the collectors hand them to the aggregator
RepoCommits(log, repo_name, workspace_repo, exclude_paths) ==
    Only({ SelectSeq(tagged, IsRetained)
         : tagged \in {[i \in 1..Len(commits) |->
                           TagCommit(commits[i], repo_name, workspace_repo)]
                       : commits \in {filter_excluded_paths(parse_git_log(log),
                                                            exclude_paths)}} })

\* Days since 1970-01-01 of the date a "%Y-%m-%d" text names
DaysFromCivil(y, m, d) ==
    Only({ (yy \div 400) * 146097 + (yy % 400) * 365 + (yy % 400) \div 4
           - (yy % 400) \div 100 + (153 * ((m + 9) % 12) + 2) \div 5 + d - 1 - 719468
         : yy \in {IF m <= 2 THEN y - 1 ELSE y} })

strptime(date) ==
    DaysFromCivil((date[1] - 48) * 1000 + (date[2] - 48) * 100
                      + (date[3] - 48) * 10 + (date[4] - 48),
                  (date[6] - 48) * 10 + (date[7] - 48),
                  (date[9] - 48) * 10 + (date[10] - 48))

RECURSIVE SumField(_, _)
SumField(commits, field) ==
    IF commits = <<>> THEN 0
    ELSE (IF field = "added" THEN Head(commits).added ELSE Head(commits).deleted)
         + SumField(Tail(commits), field)

\* A running total that forgets the days before
CumCommitsNoCarry(cum_commits, day_count) == day_count

\* cum_commits += day_count
CumCommits(cum_commits, day_count) == cum_commits + day_count

\* cum_by_author[author] = cum_by_author.get(author, 0) + 1 on a dict, whose
\* items stay in insertion order
BumpAuthor(cum_by_author, author) ==
    IF \E i \in 1..Len(cum_by_author) : cum_by_author[i].name = author
    THEN [i \in 1..Len(cum_by_author) |->
             IF cum_by_author[i].name = author
             THEN [cum_by_author[i] EXCEPT !.commits = @ + 1]
             ELSE cum_by_author[i]]
    ELSE Append(cum_by_author, [name |-> author, commits |-> 1])

RECURSIVE CountAuthors(_, _)
CountAuthors(cum_by_author, day_commits) ==
    IF day_commits = <<>> THEN cum_by_author
    ELSE CountAuthors(BumpAuthor(cum_by_author, Head(day_commits).author), Tail(day_commits))

\* Author counts that start again every day
BumpAuthorsOfDayOnly(cum_by_author, day_commits) == CountAuthors(<<>>, day_commits)

BumpAuthors(cum_by_author, day_commits) == CountAuthors(cum_by_author, day_commits)

RemoveAt(s, i) == SubSeq(s, 1, i - 1) \o SubSeq(s, i + 1, Len(s))

\* sorted(cum_by_author.items(), key=lambda x: -x[1]): a stable sort
RECURSIVE Contributors(_)
Contributors(cum_by_author) ==
    IF cum_by_author = <<>> THEN <<>>
    ELSE Only({ <<cum_by_author[i]>> \o Contributors(RemoveAt(cum_by_author, i))
              : i \in {CHOOSE i \in 1..Len(cum_by_author) :
                          \A j \in 1..Len(cum_by_author) :
                              \/ cum_by_author[j].commits < cum_by_author[i].commits
                              \/ cum_by_author[j].commits = cum_by_author[i].commits /\ i <= j} })

\* sorted(punch_card.items()) on (dow, hour) keys
RECURSIVE SortKeys(_)
SortKeys(keys) ==
    IF keys = {} THEN <<>>
    ELSE Only({ <<k>> \o SortKeys(keys \ {k})
              : k \in {CHOOSE k \in keys : \A o \in keys :
                          k[1] < o[1] \/ (k[1] = o[1] /\ k[2] <= o[2])} })

\* A punch card that marks the cells of the day without counting the commits
PunchCardOfCells(day_commits) ==
    Only({ [i \in 1..Len(keys) |-> <<keys[i][1], keys[i][2], 1>>]
         : keys \in {SortKeys({<<day_commits[n].dow, day_commits[n].hour>> :
                                 n \in 1..Len(day_commits)})} })

PunchCard(day_commits) ==
    Only({ [i \in 1..Len(keys) |->
               <<keys[i][1], keys[i][2],
                 Cardinality({n \in 1..Len(day_commits) :
                                <<day_commits[n].dow, day_commits[n].hour>> = keys[i]})>>]
         : keys \in {SortKeys({<<day_commits[n].dow, day_commits[n].hour>> :
                                 n \in 1..Len(day_commits)})} })

\* type_counts / project_counts of one day: a tag that is not set is not counted
TagCounts(day_commits, field) ==
    Only({ [t \in {tags[n] : n \in 1..Len(tags)} \ {None, ""} |->
               Cardinality({n \in 1..Len(tags) : tags[n] = t})]
         : tags \in {[n \in 1..Len(day_commits) |->
                         IF field = "commit_type" THEN day_commits[n].commit_type
                         ELSE day_commits[n].project_tag]} })

\* The running sums after one more day
Accumulate(cum, date_str, day_commits) ==
    [first |-> cum.first,
     commits |-> CumCommits(cum.commits, Len(day_commits)),
     added |-> cum.added + SumField(day_commits, "added"),
     deleted |-> cum.deleted + SumField(day_commits, "deleted"),
     by_date |-> Put(cum.by_date, date_str, Len(day_commits)),
     by_author |-> BumpAuthors(cum.by_author, day_commits)]

\* The stats dict of one day.  The fields that are the same every day
\* (project_name, difficulty, the empty timeline, components, largest_files)
\* are left out.
DayStats(cum, date_str, day_commits, include_tags) ==
    Only({ IF include_tags
           THEN base @@ [commit_tags |-> TagCounts(day_commits, "commit_type"),
                         project_tags |-> TagCounts(day_commits, "project_tag")]
           ELSE base
         : base \in {[generated_at |-> date_str,
                      first_commit |-> cum.first,
                      latest_commit |-> date_str,
                      project_age_days |-> strptime(date_str) - strptime(cum.first) + 1,
                      lines_of_code |-> [total |-> cum.added - cum.deleted,
                                         daily_added |-> SumField(day_commits, "added"),
                                         daily_deleted |-> SumField(day_commits, "deleted")],
                      git |-> [total_commits |-> cum.commits,
                               daily_commits |-> Len(day_commits),
                               contributors |-> Contributors(cum.by_author),
                               commits_by_date |-> cum.by_date],
                      punch_card |-> PunchCard(day_commits),
                      commit_subjects |->
                          SelectSeq([n \in 1..Len(day_commits) |-> day_commits[n].subject],
                                    LAMBDA s : ~StartsWith(s, "Merge "))]} })

RECURSIVE BuildDays(_, _, _, _)
BuildDays(all_commits, dates, cum, include_tags) ==
    IF dates = <<>> THEN <<>>
    ELSE Only({ Only({ <<DayStats(next, Head(dates), day_commits, include_tags)>>
                       \o BuildDays(all_commits, Tail(dates), next, include_tags)
                     : next \in {Accumulate(cum, Head(dates), day_commits)} })
              : day_commits \in {SelectSeq(all_commits, LAMBDA c : c.date = Head(dates))} })

\* The commits' dates in the order the list first names them (no sort)
RECURSIVE CommitDatesAsListed(_)
CommitDatesAsListed(all_commits) ==
    IF all_commits = <<>> THEN <<>>
    ELSE <<Head(all_commits).date>>
         \o CommitDatesAsListed(SelectSeq(Tail(all_commits),
                                          LAMBDA c : c.date # Head(all_commits).date))

\* sorted(by_date.keys())
SortedCommitDates(all_commits) ==
    SortStrings({all_commits[n].date : n \in 1..Len(all_commits)})

build_daily_stats(all_commits, include_tags) ==
    Only({ IF sorted_dates = <<>> THEN <<>>
           ELSE BuildDays(all_commits, sorted_dates,
                          [first |-> sorted_dates[1], commits |-> 0, added |-> 0,
                           deleted |-> 0, by_date |-> <<>>, by_author |-> <<>>],
                          include_tags)
         : sorted_dates \in {SortedCommitDates(all_commits)} })

collect_daily_stats(log, repo_name, workspace_repo, exclude_paths) ==
    build_daily_stats(RepoCommits(log, repo_name, workspace_repo, exclude_paths), TRUE)

RECURSIVE ExtendAll(_, _, _, _)
ExtendAll(logs, repo_list, workspace_repo, exclude_paths) ==
    IF repo_list = <<>> THEN <<>>
    ELSE RepoCommits(logs[Head(repo_list)], Head(repo_list), workspace_repo, exclude_paths)
         \o ExtendAll(logs, Tail(repo_list), workspace_repo, exclude_paths)

collect_multi_repo_daily_stats(logs, repo_list, workspace_repo, exclude_paths) ==
    build_daily_stats(ExtendAll(logs, repo_list, workspace_repo, exclude_paths), TRUE)

----------------------------------------------------------------------------
(* Two repositories, "devax" (the workspace) and "app", that receive up to *)
(* MaxCommits commits, then one collector call                             *)

RepoNames == {"devax", "app"}

\* %w of the commit's date: 0 is Sunday; 1970-01-01 was a Thursday
Weekday(date) == (strptime(date) + 4) % 7

NumstatLine(added, deleted, path) ==
    [binary |-> FALSE, added |-> added, deleted |-> deleted, path |-> path]

BinaryLine(path) == [binary |-> TRUE, added |-> 0, deleted |-> 0, path |-> path]

LogEntry(date, hour, author, subject, numstat) ==
    [date |-> date, dow |-> Weekday(date), hour |-> hour, author |-> author,
     subject |-> subject, numstat |-> numstat]

\* The commits the workspace repository can receive
DevaxEntries ==
    <<LogEntry(Date1, 9, "ana", "Add parser", <<NumstatLine(10, 2, "scripts/x.py")>>),
      LogEntry(Date1, 9, "ben", "Merge branch dev", <<>>),
      LogEntry(Date2, 14, "ana", "Update settings", <<NumstatLine(3, 0, ".claude/s.json")>>),
      LogEntry(Date2, 14, "ben", "Refactor core",
               <<NumstatLine(1, 20, "src/app.py"), BinaryLine("logo.png")>>),
      LogEntry(Date3, 9, "ana", "Fix guide", <<NumstatLine(5, 1, "docs/guide.md")>>)>>

\* The commits the other repository can receive
AppEntries ==
    <<LogEntry(Date3, 9, "ben", "Merge branch 'infra'", <<NumstatLine(4, 4, "infra/main.tf")>>),
      LogEntry(Date1, 22, "ana", "Ignore build output", <<NumstatLine(1, 0, ".gitignore")>>),
      LogEntry(Date2, 9, "cy", "Bump deps", <<NumstatLine(2, 2, "package.json")>>)>>

CommitPool ==
    {[repo |-> "devax", entry |-> e] : e \in Range(DevaxEntries)}
    \cup {[repo |-> "app", entry |-> e] : e \in Range(AppEntries)}

WorkspaceRepos == {None, "devax"}

ExcludePaths == {<<>>, <<"docs/">>}

NotCollected ==
    [called |-> FALSE, fn |-> "", repo_list |-> <<>>, workspace_repo |-> None,
     exclude_paths |-> <<>>, ret |-> <<>>]

InitStats ==
    /\ repos = [r \in RepoNames |-> <<>>]
    /\ daily = NotCollected
    /\ plat = Unused /\ hist = Unused /\ env = Unused
    /\ all_phases = Unused /\ snapshots = Unused
    /\ input = Unused /\ output = Unused

GitCommit ==
    /\ ~daily.called
    /\ Len(repos["devax"]) + Len(repos["app"]) < MaxCommits
    /\ \E c \in CommitPool : repos' = [repos EXCEPT ![c.repo] = Append(@, c.entry)]
    /\ UNCHANGED <<daily, clientVars, roadmapVars, pureVars>>

CollectDailyStats ==
    /\ ~daily.called
    /\ \E repo_name \in RepoNames, workspace_repo \in WorkspaceRepos,
          exclude_paths \in ExcludePaths :
          daily' = [called |-> TRUE, fn |-> "collect_daily_stats",
                    repo_list |-> <<repo_name>>, workspace_repo |-> workspace_repo,
                    exclude_paths |-> exclude_paths,
                    ret |-> collect_daily_stats(repos[repo_name], repo_name,
                                                workspace_repo, exclude_paths)]
    /\ UNCHANGED <<repos, clientVars, roadmapVars, pureVars>>

CollectMultiRepoDailyStats ==
    /\ ~daily.called
    /\ \E workspace_repo \in WorkspaceRepos, exclude_paths \in ExcludePaths :
          daily' = [called |-> TRUE, fn |-> "collect_multi_repo_daily_stats",
                    repo_list |-> <<"devax", "app">>, workspace_repo |-> workspace_repo,
                    exclude_paths |-> exclude_paths,
                    ret |-> collect_multi_repo_daily_stats(repos, <<"devax", "app">>,
                                                           workspace_repo, exclude_paths)]
    /\ UNCHANGED <<repos, clientVars, roadmapVars, pureVars>>

NextStats == GitCommit \/ CollectDailyStats \/ CollectMultiRepoDailyStats

SpecStats == InitStats /\ [][NextStats]_vars

RECURSIVE SumDailyCommits(_, _)
SumDailyCommits(ret, i) ==
    IF i = 0 THEN 0 ELSE ret[i].git.daily_commits + SumDailyCommits(ret, i - 1)

RECURSIVE SumDailyNet(_, _)
SumDailyNet(ret, i) ==
    IF i = 0 THEN 0
    ELSE ret[i].lines_of_code.daily_added - ret[i].lines_of_code.daily_deleted
         + SumDailyNet(ret, i - 1)

\* C8: in the list of daily stats, day i's total_commits is the sum of
\* daily_commits over days 1..i, and its lines_of_code total is the sum of
\* daily_added - daily_deleted over days 1..i.
C8_CumulativeIsSumOfDaily ==
    daily.called =>
        \A i \in 1..Len(daily.ret) :
            /\ daily.ret[i].git.total_commits = SumDailyCommits(daily.ret, i)
            /\ daily.ret[i].lines_of_code.total = SumDailyNet(daily.ret, i)

\* Three days of one commit each
C8_Witness ==
    /\ daily.called /\ Len(daily.ret) = 3
    /\ daily.ret[3].git.total_commits = 3
    /\ daily.ret[2].lines_of_code.total # daily.ret[2].lines_of_code.daily_added
                                          - daily.ret[2].lines_of_code.daily_deleted

\* A contributor's cumulative count in one day's stats: 0 when not listed
CommitsOf(contributors, name) ==
    IF \E k \in 1..Len(contributors) : contributors[k].name = name
    THEN contributors[CHOOSE k \in 1..Len(contributors) : contributors[k].name = name].commits
    ELSE 0

Authors == {"ana", "ben", "cy"}

\* C9 as claimed: total commits, total net lines of code and every
\* contributor's count never decrease from one day to the next.
C9_AllCumulativeNonDecreasing ==
    daily.called =>
        \A i \in 1..(Len(daily.ret) - 1) :
            /\ daily.ret[i].git.total_commits <= daily.ret[i + 1].git.total_commits
            /\ daily.ret[i].lines_of_code.total <= daily.ret[i + 1].lines_of_code.total
            /\ \A a \in Authors :
                  CommitsOf(daily.ret[i].git.contributors, a)
                      <= CommitsOf(daily.ret[i + 1].git.contributors, a)

\* C9 as amended: total commits and every contributor's count never decrease
\* from one day to the next; the net lines-of-code total decreases exactly on
\* a day with more deleted than added lines.
C9_CountsNonDecreasing ==
    daily.called =>
        \A i \in 1..(Len(daily.ret) - 1) :
            /\ daily.ret[i].git.total_commits <= daily.ret[i + 1].git.total_commits
            /\ \A a \in Authors :
                  CommitsOf(daily.ret[i].git.contributors, a)
                      <= CommitsOf(daily.ret[i + 1].git.contributors, a)
            /\ (daily.ret[i + 1].lines_of_code.total < daily.ret[i].lines_of_code.total)
                  <=> (daily.ret[i + 1].lines_of_code.daily_deleted
                           > daily.ret[i + 1].lines_of_code.daily_added)

\* A second day with more deletions than additions, by another author
C9_Witness ==
    /\ daily.called /\ Len(daily.ret) = 2
    /\ daily.ret[2].lines_of_code.daily_deleted > daily.ret[2].lines_of_code.daily_added
    /\ daily.ret[2].lines_of_code.total < daily.ret[1].lines_of_code.total
    /\ CommitsOf(daily.ret[2].git.contributors, "ana") = 1
    /\ CommitsOf(daily.ret[1].git.contributors, "ben") = 0

\* The commits of the call's repositories after the path filter, each with
\* the tags the classifiers give it
TaggedInputOf(repo_name) ==
    Only({ [i \in 1..Len(commits) |-> TagCommit(commits[i], repo_name, daily.workspace_repo)]
         : commits \in {filter_excluded_paths(parse_git_log(repos[repo_name]),
                                              daily.exclude_paths)} })

TaggedInput ==
    IF Len(daily.repo_list) = 1 THEN TaggedInputOf(daily.repo_list[1])
    ELSE TaggedInputOf(daily.repo_list[1]) \o TaggedInputOf(daily.repo_list[2])

RECURSIVE SumCounts(_)
SumCounts(counts) ==
    IF DOMAIN counts = {} THEN 0
    ELSE Only({ counts[t] + SumCounts([x \in DOMAIN counts \ {t} |-> counts[x]])
              : t \in {CHOOSE t \in DOMAIN counts : TRUE} })

C10_WitnessSingle ==
    /\ daily.called /\ daily.fn = "collect_daily_stats"
    /\ \E n \in 1..Len(TaggedInput) : TaggedInput[n].project_tag = None
    /\ \E n \in 1..Len(TaggedInput) : TaggedInput[n].commit_type = None
    /\ Len(daily.ret) = 1 /\ daily.ret[1].git.total_commits = 1

\* The subject begins with "Merge"
IsMergeSubject(subject) == StartsWith(subject, "Merge")

\* C12 as claimed: every commit whose subject begins with "Merge" gets no
\* commit type, and no day's count includes one, whichever repository it
\* comes from and whatever the workspace repository is.
C12_MergeCommitsExcluded ==
    daily.called =>
        \A tagged \in {TaggedInput} :
            /\ \A n \in 1..Len(tagged) :
                  IsMergeSubject(tagged[n].subject) => tagged[n].commit_type = None
            /\ \A i \in 1..Len(daily.ret) :
                  daily.ret[i].git.daily_commits
                      <= Cardinality({n \in 1..Len(tagged) :
                                         /\ tagged[n].date = daily.ret[i].generated_at
                                         /\ ~IsMergeSubject(tagged[n].subject)})

\* What the code does keep of it: a merge commit whose subject matches none of
\* the bugfix, refactor, infra and docs rules gets no commit type and is
\* counted in no day.
C12_MergeCommitsWithoutEarlierMatchExcluded ==
    daily.called =>
        \A tagged \in {TaggedInput} :
            /\ \A n \in 1..Len(tagged) :
                  (/\ IsMergeSubject(tagged[n].subject)
                   /\ \A k \in 1..4 : ~TypeRule(k, Lower(tagged[n].subject)))
                  => tagged[n].commit_type = None
            /\ \A i \in 1..Len(daily.ret) :
                  daily.ret[i].git.daily_commits
                      <= Cardinality({n \in 1..Len(tagged) :
                                         /\ tagged[n].date = daily.ret[i].generated_at
                                         /\ \/ ~IsMergeSubject(tagged[n].subject)
                                            \/ \E k \in 1..4 :
                                                  TypeRule(k, Lower(tagged[n].subject))})


RECURSIVE SumPunchCard(_)
SumPunchCard(punch_card) ==
    IF punch_card = <<>> THEN 0 ELSE Head(punch_card)[3] + SumPunchCard(Tail(punch_card))

RECURSIVE SumContributors(_)
SumContributors(contributors) ==
    IF contributors = <<>> THEN 0
    ELSE Head(contributors).commits + SumContributors(Tail(contributors))

\* C29: in every DailyStat of the collectors the breakdowns add up to the
\* totals: the punch card to daily_commits, commits_by_date and the
\* contributors to total_commits, and commit_tags and project_tags, which
\* are made after the commits without a tag are removed, to daily_commits.
C29_BreakdownsAddUpToTotals ==
    daily.called =>
        \A i \in 1..Len(daily.ret) :
            /\ SumPunchCard(daily.ret[i].punch_card) = daily.ret[i].git.daily_commits
            /\ SumCounts(daily.ret[i].git.commits_by_date) = daily.ret[i].git.total_commits
            /\ SumContributors(daily.ret[i].git.contributors)
                  = daily.ret[i].git.total_commits
            /\ SumCounts(daily.ret[i].commit_tags) = daily.ret[i].git.daily_commits
            /\ SumCounts(daily.ret[i].project_tags) = daily.ret[i].git.daily_commits

\* A second day with two commits in the same hour by two authors, of two
\* types, after a first day with one commit
C29_Witness ==
    /\ daily.called /\ Len(daily.ret) = 2
    /\ daily.ret[2].git.daily_commits = 2 /\ daily.ret[2].git.total_commits = 3
    /\ Len(daily.ret[2].punch_card) = 1
    /\ Len(daily.ret[2].git.contributors) = 2
    /\ Cardinality(DOMAIN daily.ret[2].commit_tags) = 2

----------------------------------------------------------------------------
(* The aggregator alone, on every list of up to MaxAggregated commits the  *)
(* collectors can hand it                                                   *)

MaxAggregated == 5     \* commits in the list given to _build_daily_stats

\* Commits as a collector hands them over: parsed, tagged, both tags set
AggregatedPool ==
    {TagCommit(ParseCommit(e), "app", None) :
        e \in {LogEntry(Date1, 9, "ana", "Add parser", <<NumstatLine(10, 2, "src/p.py")>>),
               LogEntry(Date1, 14, "ben", "Refactor core", <<NumstatLine(1, 20, "src/app.py")>>),
               LogEntry(Date2, 9, "ben", "Bump deps", <<NumstatLine(2, 2, "package.json")>>),
               LogEntry(Date3, 9, "ana", "Fix guide", <<NumstatLine(5, 1, "guide.txt")>>)}}

SeqsUpTo(S, n) == UNION {[1..k -> S] : k \in 0..n}

NotApplied == [called |-> FALSE, ret |-> <<>>]

InitAggregate ==
    /\ input \in [all_commits : SeqsUpTo(AggregatedPool, MaxAggregated),
                  include_tags : BOOLEAN]
    /\ output = NotApplied
    /\ plat = Unused /\ hist = Unused /\ env = Unused
    /\ all_phases = Unused /\ snapshots = Unused
    /\ repos = Unused /\ daily = Unused

BuildDailyStats ==
    /\ ~output.called
    /\ output' = [called |-> TRUE,
                  ret |-> build_daily_stats(input.all_commits, input.include_tags)]
    /\ UNCHANGED <<input, clientVars, roadmapVars, statsVars>>

NextAggregate == BuildDailyStats

SpecAggregate == InitAggregate /\ [][NextAggregate]_vars

CommitsOn(all_commits, d) ==
    Cardinality({n \in 1..Len(all_commits) : all_commits[n].date = d})

\* C11: _build_daily_stats returns one entry per distinct date of its commits
\* and none for any other date, in strictly ascending date order, each entry
\* counting the commits of its date; three commits on one day and two on a
\* later day, with a day without commits between them, give two entries, the
\* second with total_commits 5 and daily_commits 2; an empty list gives an
\* empty list.
C11_OneEntryPerCommitDate ==
    output.called =>
        /\ Len(output.ret)
              = Cardinality({input.all_commits[n].date : n \in 1..Len(input.all_commits)})
        /\ \A i \in 1..Len(output.ret) :
              /\ CommitsOn(input.all_commits, output.ret[i].generated_at) >= 1
              /\ output.ret[i].git.daily_commits
                    = CommitsOn(input.all_commits, output.ret[i].generated_at)
              /\ \A j \in (i + 1)..Len(output.ret) :
                    StrLess(output.ret[i].generated_at, output.ret[j].generated_at)
        /\ input.all_commits = <<>> => output.ret = <<>>
        /\ (/\ Len(input.all_commits) = 5
            /\ CommitsOn(input.all_commits, Date1) = 3
            /\ CommitsOn(input.all_commits, Date3) = 2)
           => /\ Len(output.ret) = 2
              /\ output.ret[2].git.total_commits = 5
              /\ output.ret[2].git.daily_commits = 2

\* Three commits of 2026-01-31 and two of 2026-02-10, a later one listed first
C11_Witness ==
    /\ output.called
    /\ Len(input.all_commits) = 5
    /\ CommitsOn(input.all_commits, Date1) = 3
    /\ CommitsOn(input.all_commits, Date3) = 2
    /\ input.all_commits[1].date = Date3
    /\ Len(output.ret) = 2
    /\ output.ret[1].generated_at = Date1
    /\ output.ret[2].git.total_commits = 5

\* The list with the commits at i and i + 1 exchanged
SwapAdjacent(all_commits, i) ==
    [n \in 1..Len(all_commits) |->
        IF n = i THEN all_commits[i + 1]
        ELSE IF n = i + 1 THEN all_commits[i]
        ELSE all_commits[n]]

\* C15 as claimed: _build_daily_stats returns the same list for every order of
\* its commits: exchanging two neighbours of the list, from which every
\* permutation is made, never changes the output, the order of contributors
\* with equal counts and the order of a day's commit_subjects included.
C15_SameOutputForEveryOrder ==
    output.called =>
        \A i \in 1..(Len(input.all_commits) - 1) :
            build_daily_stats(SwapAdjacent(input.all_commits, i), input.include_tags)
                = output.ret

\* A day's stats with the contributors as a set and the subjects as a bag
OrderForgotten(stats) ==
    [stats EXCEPT
        !.git = [@ EXCEPT !.contributors = Range(@)],
        !.commit_subjects = [s \in Range(@) |->
                                Cardinality({n \in 1..Len(@) : @[n] = s})]]

\* What the code does keep of it: the output is the same for every order of
\* the commits but for the order of the contributors and the order of a day's
\* commit_subjects.
C15_SameOutputButForListOrders ==
    output.called =>
        \A i \in 1..(Len(input.all_commits) - 1) :
            \A other \in {build_daily_stats(SwapAdjacent(input.all_commits, i),
                                            input.include_tags)} :
                /\ Len(other) = Len(output.ret)
                /\ \A d \in 1..Len(other) :
                      OrderForgotten(other[d]) = OrderForgotten(output.ret[d])

----------------------------------------------------------------------------
(* The two classifiers alone, on subjects put together from a first word    *)
(* and a remainder, and on lists of up to MaxFiles changed files            *)

MaxFiles == 2          \* changed files of the commit given to _classify_project

SubjectHeads ==
    {"Fix", "fix", "Fixes", "Refactor", "Deploy", "Update docs", "Ignore", ".gitignore",
     "Merge", "Add", "Update", "Bump", "Set up", "Tweak"}

SubjectTails ==
    {"", " spacing", " infra", " README", " notes.md", " Cloud Run job", " merge fix"}

Subjects == {h \o t : h \in SubjectHeads, t \in SubjectTails}

ChangedFiles ==
    {"scripts/x.py", "infra/main.tf", "docs/guide.md", ".claude/s.json", ".gitignore",
     "CLAUDE.md", "src/app.py"}

ClassifierInputs ==
    {[fn |-> "classify_commit", subject |-> s, repo_name |-> "", file_paths |-> <<>>,
      workspace_repo |-> None] : s \in Subjects}
    \cup {[fn |-> "classify_project", subject |-> "", repo_name |-> r, file_paths |-> f,
           workspace_repo |-> ws]
          : r \in {"devax", "app", "docs"}, f \in SeqsUpTo(ChangedFiles, MaxFiles),
            ws \in {None, "", "devax", "docs"}}

InitClassify ==
    /\ input \in ClassifierInputs
    /\ output = NotApplied
    /\ plat = Unused /\ hist = Unused /\ env = Unused
    /\ all_phases = Unused /\ snapshots = Unused
    /\ repos = Unused /\ daily = Unused

ClassifyCommit ==
    /\ ~output.called
    /\ input.fn = "classify_commit"
    /\ output' = [called |-> TRUE, ret |-> classify_commit(input.subject)]
    /\ UNCHANGED <<input, clientVars, roadmapVars, statsVars>>

ClassifyProject ==
    /\ ~output.called
    /\ input.fn = "classify_project"
    /\ output' = [called |-> TRUE,
                  ret |-> classify_project(input.repo_name, input.file_paths,
                                           input.workspace_repo)]
    /\ UNCHANGED <<input, clientVars, roadmapVars, statsVars>>

NextClassify == ClassifyCommit \/ ClassifyProject

SpecClassify == InitClassify /\ [][NextClassify]_vars

\* The order of the rules as claimed, by tag
ClaimedRuleOrder ==
    <<"bugfix", "refactor", "infra", "docs", None, None, "feature", "update">>

\* C13: classify_commit returns the tag of the first rule, in the order bugfix,
\* refactor, infra, docs, ignore (null), merge (null), feature, update, that
\* matches the subject whatever its case, and "feature" when no rule matches.
C13_FirstMatchingRuleWins ==
    (output.called /\ input.fn = "classify_commit") =>
        \A matching \in {{n \in 1..Len(ClaimedRuleOrder) :
                            TypeRule(n, Lower(input.subject))}} :
            IF matching = {} THEN output.ret = "feature"
            ELSE \E n \in matching :
                    /\ \A k \in matching : n <= k
                    /\ output.ret = ClaimedRuleOrder[n]

\* A subject that the bugfix rule and the docs rule both match
C13_Witness ==
    /\ output.called /\ input.fn = "classify_commit"
    /\ input.subject = "fix README"
    /\ TypeRule(1, Lower(input.subject)) /\ TypeRule(4, Lower(input.subject))
    /\ output.ret = "bugfix"

\* A subject that no rule matches
C13_WitnessFallback ==
    /\ output.called /\ input.fn = "classify_commit"
    /\ input.subject = "Tweak spacing"
    /\ \A n \in 1..Len(ClaimedRuleOrder) : ~TypeRule(n, Lower(input.subject))
    /\ output.ret = "feature"

\* C14: classify_project returns repo_name when the repository is not the
\* workspace repository; for the workspace repository it returns null exactly
\* when every changed file resolves to a skip rule, and otherwise the first of
\* tools, infra, docs among the files' tags, or repo_name when none of the
\* three is among them.
C14_ProjectByRepositoryOrPaths ==
    (output.called /\ input.fn = "classify_project") =>
        IF input.workspace_repo = None \/ input.repo_name # input.workspace_repo
        THEN output.ret = input.repo_name
        ELSE \A tags \in {[i \in 1..Len(input.file_paths) |->
                             PathTagsOf(input.repo_name, input.file_paths[i])]} :
                /\ (output.ret = None) <=> (\A i \in 1..Len(tags) : tags[i] = {})
                /\ output.ret # None =>
                      output.ret = IF \E i \in 1..Len(tags) : "tools" \in tags[i] THEN "tools"
                                   ELSE IF \E i \in 1..Len(tags) : "infra" \in tags[i] THEN "infra"
                                   ELSE IF \E i \in 1..Len(tags) : "docs" \in tags[i] THEN "docs"
                                   ELSE input.repo_name

\* A commit of the workspace repository that changes a docs file and a tools
\* file, the docs file listed first
C14_Witness ==
    /\ output.called /\ input.fn = "classify_project"
    /\ input.repo_name = "devax" /\ input.workspace_repo = "devax"
    /\ input.file_paths = <<"docs/guide.md", "scripts/x.py">>
    /\ output.ret = "tools"

\* A commit of the workspace repository that changes skipped files only
C14_WitnessSkipped ==
    /\ output.called /\ input.fn = "classify_project"
    /\ input.repo_name = "devax" /\ input.workspace_repo = "devax"
    /\ input.file_paths = <<".claude/s.json", ".gitignore">>
    /\ output.ret = None

\* The same files in another repository
C14_WitnessOtherRepository ==
    /\ output.called /\ input.fn = "classify_project"
    /\ input.repo_name = "app" /\ input.workspace_repo = "devax"
    /\ input.file_paths = <<".claude/s.json", ".gitignore">>
    /\ output.ret = "app"

----------------------------------------------------------------------------
(* lib/stats/estimator.py.  A float is the fraction n/d it stands for, with *)
(* d > 0; what math.pow returns is kept as the expression that made it.     *)

LOC_PER_DAY == 125
DAYS_PER_WEEK == 5
MaxGapDays == 3        \* max_gap_days of _calculate_active_period_days

Frac(n, d) == [kind |-> "frac", n |-> n, d |-> d]

COCOMO_A == Frac(24, 10)
COCOMO_B == Frac(105, 100)
COCOMO_C == Frac(25, 10)
COCOMO_D == Frac(38, 100)
WEEKS_PER_MONTH == Frac(433, 100)

\* n/d to the nearest integer, a tie to the even one
RoundHalfEven(n, d) ==
    Only({ IF 2 * (n % d) < d THEN q
           ELSE IF 2 * (n % d) > d THEN q + 1
           ELSE IF q % 2 = 0 THEN q ELSE q + 1
         : q \in {n \div d} })

\* round(x, ndigits) for ndigits 0 or 1
round(x, ndigits) ==
    IF x.kind # "frac" THEN [kind |-> "round", of |-> x, ndigits |-> ndigits]
    ELSE IF ndigits = 0 THEN Frac(RoundHalfEven(x.n, x.d), 1)
    ELSE Frac(RoundHalfEven(10 * x.n, x.d), 10)

\* x / y for an int y: Python raises when y is 0
TrueDivide(x, y) ==
    IF y = 0 THEN [exc |-> "ZeroDivisionError", ret |-> Frac(0, 1)]
    ELSE [exc |-> NoExc, ret |-> Frac(x.n, x.d * y)]

\* a * math.pow(x, b) for a > 0 and a fractional b > 0: math.pow raises
\* ValueError (math domain error) when x is negative
TimesPow(a, x, b) ==
    IF x.kind = "frac" /\ x.n < 0 THEN [exc |-> "ValueError", ret |-> Frac(0, 1)]
    ELSE [exc |-> NoExc, ret |-> [kind |-> "times_pow", a |-> a, x |-> x, b |-> b]]

RECURSIVE Gaps(_)
Gaps(sorted_dates) ==
    IF Len(sorted_dates) < 2 THEN <<>>
    ELSE Only({ (IF gap > 0 THEN <<gap>> ELSE <<>>) \o Gaps(Tail(sorted_dates))
              : gap \in {strptime(sorted_dates[2]) - strptime(sorted_dates[1]) - 1} })

RECURSIVE MaxOf(_)
MaxOf(s) == IF s = <<>> THEN 0
            ELSE Only({ IF Head(s) > rest THEN Head(s) ELSE rest : rest \in {MaxOf(Tail(s))} })

RECURSIVE SumOf(_)
SumOf(s) == IF s = <<>> THEN 0 ELSE Head(s) + SumOf(Tail(s))

\* The long gaps with a gap of max_gap_days itself taken for one:
\* g >= max_gap_days
LongGapsFromThreshold(gaps) == SelectSeq(gaps, LAMBDA g : g >= MaxGapDays)

\* [g for g in gaps if g > max_gap_days]
LongGaps(gaps) == SelectSeq(gaps, LAMBDA g : g > MaxGapDays)

calculate_active_period_days(commits_by_date) ==
    IF DOMAIN commits_by_date = {}
    THEN [calendar_days |-> 0, active_coding_days |-> 0, inactive_days |-> 0,
          longest_gap_days |-> 0, active_period_days |-> 0]
    ELSE Only({ Only({ [calendar_days |-> calendar_days,
                        active_coding_days |-> Len(sorted_dates),
                        inactive_days |-> calendar_days - Len(sorted_dates),
                        longest_gap_days |-> MaxOf(gaps),
                        active_period_days |->
                            calendar_days - SumOf(LongGaps(gaps))]
                     : calendar_days \in {strptime(sorted_dates[Len(sorted_dates)])
                                          - strptime(sorted_dates[1]) + 1},
                       gaps \in {Gaps(sorted_dates)} })
              : sorted_dates \in {SortStrings(DOMAIN commits_by_date)} })

\* The COCOMO reference: effort_pm, schedule_months and cocomo_weeks
Cocomo(kloc) ==
    IF kloc.n > 0
    THEN Only({ IF effort_pm.exc # NoExc THEN effort_pm
                ELSE Only({ IF schedule_months.exc # NoExc THEN schedule_months
                            ELSE [exc |-> NoExc,
                                  ret |-> [effort_pm |-> effort_pm.ret,
                                           schedule_months |-> schedule_months.ret,
                                           cocomo_weeks |->
                                               [kind |-> "times", a |-> schedule_months.ret,
                                                b |-> WEEKS_PER_MONTH]]]
                          : schedule_months \in {TimesPow(COCOMO_C, effort_pm.ret, COCOMO_D)} })
              : effort_pm \in {TimesPow(COCOMO_A, kloc, COCOMO_B)} })
    ELSE [exc |-> NoExc, ret |-> [effort_pm |-> Frac(0, 1), schedule_months |-> Frac(0, 1),
                                  cocomo_weeks |-> Frac(0, 1)]]

\* A guard that looks at the estimate only
SpeedupDefinedByEstimateOnly(actual_active_days, estimated_working_days) ==
    estimated_working_days.n > 0

\* if actual_active_days > 0 and estimated_working_days > 0
SpeedupDefined(actual_active_days, estimated_working_days) ==
    actual_active_days > 0 /\ estimated_working_days.n > 0

\* estimate_dev_time from the speedup on
EstimateFrom(kloc, estimated_working_days, timeline) ==
    Only({ IF cocomo.exc # NoExc THEN [exc |-> cocomo.exc, ret |-> <<>>]
           ELSE IF speedup.exc # NoExc THEN [exc |-> speedup.exc, ret |-> <<>>]
           ELSE [exc |-> NoExc,
                 ret |-> [kloc |-> round(kloc, 1),
                          estimated_working_days |-> round(estimated_working_days, 0),
                          cocomo_weeks |->
                              round(Frac(estimated_working_days.n,
                                         estimated_working_days.d * DAYS_PER_WEEK), 0),
                          cocomo_effort_pm |-> round(cocomo.ret.effort_pm, 1),
                          cocomo_schedule_months |-> round(cocomo.ret.schedule_months, 1),
                          cocomo_raw_weeks |-> round(cocomo.ret.cocomo_weeks, 0),
                          calendar_days |-> timeline.calendar_days,
                          active_coding_days |-> timeline.active_coding_days,
                          inactive_days |-> timeline.inactive_days,
                          active_period_days |-> timeline.active_period_days,
                          longest_gap_days |-> timeline.longest_gap_days,
                          speedup_factor |-> round(speedup.ret, 1)]]
         : cocomo \in {Cocomo(kloc)},
           speedup \in {IF SpeedupDefined(timeline.active_coding_days,
                                          estimated_working_days)
                        THEN TrueDivide(estimated_working_days, timeline.active_coding_days)
                        ELSE [exc |-> NoExc, ret |-> Frac(0, 1)]} })

estimate_dev_time(stats) ==
    Only({ EstimateFrom(kloc, estimated_working_days, timeline)
         : kloc \in {Frac(stats.lines_of_code.total, 1000)},
           estimated_working_days \in {IF stats.lines_of_code.total > 0
                                       THEN Frac(stats.lines_of_code.total, LOC_PER_DAY)
                                       ELSE Frac(0, 1)},
           timeline \in {calculate_active_period_days(stats.git.commits_by_date)} })

----------------------------------------------------------------------------
(* The estimator alone, on stats of every total of TotalLocs and every      *)
(* histogram over up to three commit dates                                  *)

MaxDayCommits == 2     \* commits of one date in commits_by_date

TotalLocs == {0 - 19, 0, 1, 100, 125, 250, 1000, 3125}

Histograms ==
    UNION {[S -> 1..MaxDayCommits] : S \in SUBSET {Date1, Date2, Date3}}

InitEstimate ==
    /\ input \in {[lines_of_code |-> [total |-> t], git |-> [commits_by_date |-> h]]
                  : t \in TotalLocs, h \in Histograms}
    /\ output = [called |-> FALSE, exc |-> NoExc, ret |-> <<>>]
    /\ plat = Unused /\ hist = Unused /\ env = Unused
    /\ all_phases = Unused /\ snapshots = Unused
    /\ repos = Unused /\ daily = Unused

EstimateDevTime ==
    /\ ~output.called
    /\ \E r \in {estimate_dev_time(input)} :
          output' = [called |-> TRUE, exc |-> r.exc, ret |-> r.ret]
    /\ UNCHANGED <<input, clientVars, roadmapVars, statsVars>>

NextEstimate == EstimateDevTime

SpecEstimate == InitEstimate /\ [][NextEstimate]_vars

\* C16: estimate_dev_time raises neither a division error nor a math domain
\* error; its speedup_factor is 0 when the total lines of code is zero or
\* negative or when commits_by_date is empty, and otherwise the estimated
\* working days (total / 125) divided by the number of active coding days,
\* to one decimal.
C16_SpeedupNeverDividesByZero ==
    output.called =>
        /\ output.exc = NoExc
        /\ \A days \in {Cardinality(DOMAIN input.git.commits_by_date)} :
              IF input.lines_of_code.total <= 0 \/ days = 0
              THEN output.ret.speedup_factor = Frac(0, 10)
              ELSE /\ output.ret.active_coding_days = days
                   /\ output.ret.speedup_factor.d = 10
                   /\ \A tenths \in {output.ret.speedup_factor.n} :
                         /\ 2 * (tenths * LOC_PER_DAY * days
                                 - 10 * input.lines_of_code.total) <= LOC_PER_DAY * days
                         /\ 2 * (10 * input.lines_of_code.total
                                 - tenths * LOC_PER_DAY * days) <= LOC_PER_DAY * days

\* No commit dates and a positive total: the division is not attempted
C16_Witness ==
    /\ output.called /\ output.exc = NoExc
    /\ DOMAIN input.git.commits_by_date = {}
    /\ input.lines_of_code.total = 1000
    /\ output.ret.estimated_working_days = Frac(8, 1)
    /\ output.ret.speedup_factor = Frac(0, 10)

\* Three active days and 1000 lines: 8 / 3 is 2.7
C16_WitnessQuotient ==
    /\ output.called /\ output.exc = NoExc
    /\ Cardinality(DOMAIN input.git.commits_by_date) = 3
    /\ input.lines_of_code.total = 1000
    /\ output.ret.speedup_factor = Frac(27, 10)

----------------------------------------------------------------------------
(* lib/formatters.py and lib/stats/formatter.py: the Block Kit builders.    *)
(* A text is the sequence of its code points, so that its length is what    *)
(* len() counts.  Of a block, its type and its text are kept.               *)

HeaderCap == 150       \* text[:150] of lib/formatters.py's _header_block
AddedCap == 15         \* added[:15]
FixedCap == 10         \* fixed[:10]
ChangedCap == 10       \* changed[:10]
DatabaseCap == 5       \* db[:5]
DependenciesCap == 5   \* deps[:5]

NewLine == 10

Repeat(ch, n) == [i \in 1..n |-> ch]

\* str(n) for n >= 0
RECURSIVE Decimal(_)
Decimal(n) == IF n < 10 THEN <<Digit(n)>> ELSE Decimal(n \div 10) \o <<Digit(n % 10)>>

\* s[:n] without the cut
Unsliced(s, n) == s

\* s[:n] on a text or a list
Slice(s, n) == SubSeq(s, 1, Min(n, Len(s)))

\* "\n".join(lines)
RECURSIVE JoinLines(_)
JoinLines(lines) ==
    IF lines = <<>> THEN <<>>
    ELSE IF Len(lines) = 1 THEN lines[1]
    ELSE lines[1] \o <<NewLine>> \o JoinLines(Tail(lines))

\* lib/formatters.py
header_block(text) == [type |-> "header", text |-> Slice(text, HeaderCap)]

\* lib/stats/formatter.py
stats_header_block(text) == [type |-> "header", text |-> text]

section_block(text) == [type |-> "section", text |-> text]

context_block(text) == [type |-> "context", text |-> text]

divider == [type |-> "divider", text |-> <<>>]

\* _display_date: phase.get("date_display") or phase.get("date", "")
display_date(phase) == IF phase.date_display # <<>> THEN phase.date_display ELSE phase.date

\* " \u2014 "
EmDashed ==
    <<32, 8212, 32>>

\* "\u2022 "
Bullet ==
    <<8226, 32>>

\* "\U0001f5fa\ufe0f "
RoadmapIcon ==
    <<128506, 65039, 32>>

\* "Roadmap Progress"
RoadmapProgress ==
    <<82, 111, 97, 100, 109, 97, 112, 32, 80, 114, 111, 103, 114, 101, 115,
      115>>

\* "\U0001f6e0\ufe0f "
SessionIcon ==
    <<128736, 65039, 32>>

\* "Development Progress"
DevelopmentProgress ==
    <<68, 101, 118, 101, 108, 111, 112, 109, 101, 110, 116, 32, 80, 114, 111,
      103, 114, 101, 115, 115>>

\* "\U0001f3c1 "
WrapIcon ==
    <<127937, 32>>

\* "Session Wrap"
SessionWrap ==
    <<83, 101, 115, 115, 105, 111, 110, 32, 87, 114, 97, 112>>

\* "\U0001f680 "
ShipIcon ==
    <<128640, 32>>

\* " Shipped!"
Shipped ==
    <<32, 83, 104, 105, 112, 112, 101, 100, 33>>

\* "No releases found in CHANGELOG.md"
NoReleases ==
    <<78, 111, 32, 114, 101, 108, 101, 97, 115, 101, 115, 32, 102, 111, 117,
      110, 100, 32, 105, 110, 32, 67, 72, 65, 78, 71, 69, 76, 79, 71, 46,
      109, 100>>

\* "*\u2728 What's New*"
WhatsNew ==
    <<42, 10024, 32, 87, 104, 97, 116, 39, 115, 32, 78, 101, 119, 42>>

\* "*\U0001f527 Fixed*"
FixedTitle ==
    <<42, 128295, 32, 70, 105, 120, 101, 100, 42>>

\* "*\u267b\ufe0f Changed*"
ChangedTitle ==
    <<42, 9851, 65039, 32, 67, 104, 97, 110, 103, 101, 100, 42>>

\* "*\U0001f5c4\ufe0f Database*"
DatabaseTitle ==
    <<42, 128452, 65039, 32, 68, 97, 116, 97, 98, 97, 115, 101, 42>>

\* "*\U0001f4e6 Dependencies*"
DependenciesTitle ==
    <<42, 128230, 32, 68, 101, 112, 101, 110, 100, 101, 110, 99, 105, 101,
      115, 42>>

\* "*\U0001f4ca Platform Stats*\n"
PlatformStats ==
    <<42, 128202, 32, 80, 108, 97, 116, 102, 111, 114, 109, 32, 83, 116, 97,
      116, 115, 42, 10>>

\* "Features: "
FeaturesColon ==
    <<70, 101, 97, 116, 117, 114, 101, 115, 58, 32>>

\* " sections"
Sections ==
    <<32, 115, 101, 99, 116, 105, 111, 110, 115>>

\* " \xb7 Coming Soon: "
ComingSoon ==
    <<32, 183, 32, 67, 111, 109, 105, 110, 103, 32, 83, 111, 111, 110, 58, 32>>

\* " planned"
Planned ==
    <<32, 112, 108, 97, 110, 110, 101, 100>>

\* "\U0001f4dd "
NoteIcon ==
    <<128221, 32>>

\* "Session Update"
SessionUpdate ==
    <<83, 101, 115, 115, 105, 111, 110, 32, 85, 112, 100, 97, 116, 101>>

\* "Session Changes"
SessionChanges ==
    <<83, 101, 115, 115, 105, 111, 110, 32, 67, 104, 97, 110, 103, 101, 115>>

\* "Changelog"
ChangelogWord ==
    <<67, 104, 97, 110, 103, 101, 108, 111, 103>>

\* "\U0001f4da "
BooksIcon ==
    <<128218, 32>>

\* "Confluence Activity"
ConfluenceActivity ==
    <<67, 111, 110, 102, 108, 117, 101, 110, 99, 101, 32, 65, 99, 116, 105,
      118, 105, 116, 121>>

\* "Confluence Status"
ConfluenceStatus ==
    <<67, 111, 110, 102, 108, 117, 101, 110, 99, 101, 32, 83, 116, 97, 116,
      117, 115>>

\* "Confluence Sync"
ConfluenceSync ==
    <<67, 111, 110, 102, 108, 117, 101, 110, 99, 101, 32, 83, 121, 110, 99>>

\* "\U0001f4ca "
ChartIcon ==
    <<128202, 32>>

\* "Daily Coding Stats"
DailyCodingStats ==
    <<68, 97, 105, 108, 121, 32, 67, 111, 100, 105, 110, 103, 32, 83, 116,
      97, 116, 115>>

\* "Day "
DayWord ==
    <<68, 97, 121, 32>>

\* build_roadmap_blocks: its header block, the only one it makes
roadmap_header(project_name) ==
    header_block(RoadmapIcon \o project_name \o EmDashed \o RoadmapProgress)

\* One section of the release message: none for a missing or empty section
release_section(sections, name, title, cap) ==
    IF name \notin DOMAIN sections \/ sections[name] = <<>> THEN <<>>
    ELSE Only({ <<section_block(title \o <<NewLine>> \o JoinLines(lines))>>
              : lines \in {[i \in 1..Len(shown) |-> Bullet \o shown[i]]
                           : shown \in {Slice(sections[name], cap)}} })

release_header(project_name, phase, context) ==
    IF context = "session"
    THEN header_block(SessionIcon \o project_name \o EmDashed \o DevelopmentProgress)
    ELSE IF context = "wrap"
    THEN header_block(WrapIcon \o project_name \o EmDashed \o SessionWrap)
    ELSE header_block(ShipIcon \o project_name \o EmDashed \o phase.name \o Shipped)

\* if features_data: it is None (given is FALSE) or what parse_features
\* returned, coming_soon being the number of rows of that table
release_stats(features_data) ==
    IF ~features_data.given THEN <<>>
    ELSE <<section_block(PlatformStats \o FeaturesColon
                         \o Decimal(features_data.total_sections) \o Sections
                         \o (IF features_data.coming_soon > 0
                             THEN ComingSoon \o Decimal(features_data.coming_soon) \o Planned
                             ELSE <<>>))>>

build_release_blocks(data, project_name, features_data, context) ==
    IF data.phases = <<>> THEN <<section_block(NoReleases)>>
    ELSE Only({ <<release_header(project_name, phase, context)>>
                \o (IF display_date(phase) # <<>>
                    THEN <<context_block(display_date(phase))>> ELSE <<>>)
                \o <<divider>>
                \o release_section(phase.sections, "Added", WhatsNew, AddedCap)
                \o release_section(phase.sections, "Fixed", FixedTitle, FixedCap)
                \o release_section(phase.sections, "Changed", ChangedTitle, ChangedCap)
                \o release_section(phase.sections, "Database", DatabaseTitle, DatabaseCap)
                \o release_section(phase.sections, "Dependencies", DependenciesTitle,
                                   DependenciesCap)
                \o <<divider>>
                \o release_stats(features_data)
              : phase \in {data.phases[1]} })

\* build_changelog_blocks: its header block, the only one it makes
changelog_header(project_name, context) ==
    IF context = "session"
    THEN header_block(NoteIcon \o project_name \o EmDashed \o SessionUpdate)
    ELSE IF context = "wrap"
    THEN header_block(WrapIcon \o project_name \o EmDashed \o SessionChanges)
    ELSE header_block(NoteIcon \o project_name \o EmDashed \o ChangelogWord)

\* build_confluence_blocks: its header block, the only one it makes
confluence_header(project_name, context) ==
    IF context = "wrap"
    THEN header_block(BooksIcon \o project_name \o EmDashed \o ConfluenceActivity)
    ELSE IF context = "session"
    THEN header_block(BooksIcon \o project_name \o EmDashed \o ConfluenceStatus)
    ELSE header_block(BooksIcon \o project_name \o EmDashed \o ConfluenceSync)

\* build_slack_blocks: its header block, the only one it makes
slack_header(project) ==
    stats_header_block(ChartIcon \o project \o EmDashed \o DailyCodingStats)

\* build_daily_slack_blocks: its header block, the only one it makes
daily_slack_header(project, day_number, total_days) ==
    stats_header_block(ChartIcon \o project \o EmDashed \o DayWord
                       \o Decimal(day_number) \o <<47>> \o Decimal(total_days))

----------------------------------------------------------------------------
(* The builders alone, on project names of up to MaxProjectName characters  *)
(* and changelog sections of up to MaxItems items                           *)

MaxProjectName == 160  \* characters of the longest project name
MaxItems == 20         \* items of the longest changelog section
MaxDays == 12          \* days of development in the daily stats header

ProjectNames == {<<100, 101, 118, 97, 120>>, Repeat(120, HeaderCap - 20), Repeat(120, MaxProjectName)}

Contexts == {"deploy", "session", "wrap"}

\* The k-th item of a section: "i" and the number
Item(k) == <<105>> \o Decimal(k)

ItemsUpTo(n) == [k \in 1..n |-> Item(k)]

\* The sections of a changelog phase by their numbers of items; a section
\* the phase does not have is -1
SectionsWith(counts) ==
    [name \in {n \in DOMAIN counts : counts[n] >= 0} |-> ItemsUpTo(counts[name])]

SectionCounts ==
    [Added : {0 - 1, 0, 1, AddedCap, AddedCap + 1, MaxItems},
     Fixed : {0 - 1, FixedCap, FixedCap + 1},
     Changed : {0 - 1, ChangedCap + 1},
     Database : {0 - 1, DatabaseCap, DatabaseCap + 1},
     Dependencies : {0 - 1, DependenciesCap + 1}]

ReleaseData ==
    {[phases |-> <<>>]}
    \cup {[phases |-> <<[name |-> <<80, 104, 97, 115, 101, 32, 57>>, date |-> Date3,
                         date_display |-> d, sections |-> SectionsWith(c)]>>]
          : d \in {<<>>, <<70, 101, 98, 32, 49, 48>>}, c \in SectionCounts}

NoData == [phases |-> <<>>]

NoFeatures == [given |-> FALSE, total_sections |-> 0, coming_soon |-> 0]

FormatterInputs ==
    {[builder |-> "build_release_blocks", project_name |-> p, context |-> c, data |-> d,
      features_data |-> f, day_number |-> 0, total_days |-> 0]
     : p \in ProjectNames, c \in Contexts, d \in ReleaseData,
       f \in {NoFeatures, [given |-> TRUE, total_sections |-> 12, coming_soon |-> 2]}}
    \cup {[builder |-> b, project_name |-> p, context |-> c, data |-> NoData,
           features_data |-> NoFeatures, day_number |-> 0, total_days |-> 0]
          : b \in {"build_roadmap_blocks", "build_changelog_blocks",
                   "build_confluence_blocks", "build_slack_blocks"},
            p \in ProjectNames, c \in Contexts}
    \cup {[builder |-> "build_daily_slack_blocks", project_name |-> p, context |-> "deploy",
           data |-> NoData, features_data |-> NoFeatures, day_number |-> n, total_days |-> MaxDays]
          : p \in ProjectNames, n \in 1..MaxDays}

InitFormat ==
    /\ input \in FormatterInputs
    /\ output = NotApplied
    /\ plat = Unused /\ hist = Unused /\ env = Unused
    /\ all_phases = Unused /\ snapshots = Unused
    /\ repos = Unused /\ daily = Unused

\* A builder other than build_release_blocks is followed up to its header block,
\* the only header block it makes
BuildRoadmapBlocks ==
    /\ ~output.called
    /\ input.builder = "build_roadmap_blocks"
    /\ output' = [called |-> TRUE,
                  ret |-> <<roadmap_header(input.project_name)>>]
    /\ UNCHANGED <<input, clientVars, roadmapVars, statsVars>>

BuildReleaseBlocks ==
    /\ ~output.called
    /\ input.builder = "build_release_blocks"
    /\ output' = [called |-> TRUE,
                  ret |-> build_release_blocks(input.data, input.project_name,
                                               input.features_data, input.context)]
    /\ UNCHANGED <<input, clientVars, roadmapVars, statsVars>>

BuildChangelogBlocks ==
    /\ ~output.called
    /\ input.builder = "build_changelog_blocks"
    /\ output' = [called |-> TRUE,
                  ret |-> <<changelog_header(input.project_name, input.context)>>]
    /\ UNCHANGED <<input, clientVars, roadmapVars, statsVars>>

BuildConfluenceBlocks ==
    /\ ~output.called
    /\ input.builder = "build_confluence_blocks"
    /\ output' = [called |-> TRUE,
                  ret |-> <<confluence_header(input.project_name, input.context)>>]
    /\ UNCHANGED <<input, clientVars, roadmapVars, statsVars>>

BuildSlackBlocks ==
    /\ ~output.called
    /\ input.builder = "build_slack_blocks"
    /\ output' = [called |-> TRUE,
                  ret |-> <<slack_header(input.project_name)>>]
    /\ UNCHANGED <<input, clientVars, roadmapVars, statsVars>>

BuildDailySlackBlocks ==
    /\ ~output.called
    /\ input.builder = "build_daily_slack_blocks"
    /\ output' = [called |-> TRUE,
                  ret |-> <<daily_slack_header(input.project_name, input.day_number,
                                             input.total_days)>>]
    /\ UNCHANGED <<input, clientVars, roadmapVars, statsVars>>

NextFormat ==
    \/ BuildRoadmapBlocks \/ BuildReleaseBlocks \/ BuildChangelogBlocks
    \/ BuildConfluenceBlocks \/ BuildSlackBlocks \/ BuildDailySlackBlocks

SpecFormat == InitFormat /\ [][NextFormat]_vars

\* The lines of a text
RECURSIVE SplitLines(_, _)
SplitLines(text, line) ==
    IF text = <<>> THEN <<line>>
    ELSE IF Head(text) = NewLine THEN <<line>> \o SplitLines(Tail(text), <<>>)
    ELSE SplitLines(Tail(text), Append(line, Head(text)))

\* The sections of a release message as claimed: title and most items shown
ClaimedSections ==
    [Added |-> [title |-> WhatsNew, most |-> 15],
     Fixed |-> [title |-> FixedTitle, most |-> 10],
     Changed |-> [title |-> ChangedTitle, most |-> 10],
     Database |-> [title |-> DatabaseTitle, most |-> 5],
     Dependencies |-> [title |-> DependenciesTitle, most |-> 5]]

\* C17: in the release message every section with items is rendered once,
\* its item lines being the bullets of its first items in document order, at
\* most 15 for Added, 10 for Fixed and for Changed, 5 for Database and for
\* Dependencies; a section without items is not rendered; 20 Added items give
\* exactly 15 item lines.
C17_ReleaseSectionsCapped ==
    (output.called /\ input.builder = "build_release_blocks" /\ input.data.phases # <<>>) =>
        \A name \in DOMAIN ClaimedSections :
            \A items \in {IF name \in DOMAIN input.data.phases[1].sections
                          THEN input.data.phases[1].sections[name] ELSE <<>>} :
                \A rendered \in {SelectSeq([n \in 1..Len(output.ret) |->
                                               SplitLines(output.ret[n].text, <<>>)],
                                           LAMBDA lines :
                                               lines[1] = ClaimedSections[name].title)} :
                    IF items = <<>> THEN rendered = <<>>
                    ELSE /\ Len(rendered) = 1
                         /\ Len(rendered[1]) - 1 <= ClaimedSections[name].most
                         /\ Tail(rendered[1])
                               = [k \in 1..Min(ClaimedSections[name].most, Len(items)) |->
                                     Bullet \o items[k]]
                         /\ (name = "Added" /\ Len(items) = 20)
                            => Len(rendered[1]) - 1 = 15

\* An Added section of 20 items, rendered as 15 item lines
C17_Witness ==
    /\ output.called /\ input.builder = "build_release_blocks"
    /\ input.data.phases # <<>>
    /\ "Added" \in DOMAIN input.data.phases[1].sections
    /\ Len(input.data.phases[1].sections["Added"]) = 20
    /\ \E n \in 1..Len(output.ret) :
          \E lines \in {SplitLines(output.ret[n].text, <<>>)} :
              /\ lines[1] = WhatsNew
              /\ Len(lines) = 16
              /\ lines[16] = Bullet \o Item(15)

\* C18 as claimed: every header block a builder makes, the stats builders
\* included, has a text of at most 150 characters, whatever the project name.
C18_EveryHeaderAtMost150 ==
    output.called =>
        \A n \in 1..Len(output.ret) :
            output.ret[n].type = "header" => Len(output.ret[n].text) <= 150

\* What the code does keep of it: the header blocks of the roadmap, release,
\* changelog and confluence builders have a text of at most 150 characters,
\* and a longer header is cut to its first 150.
C18_DocumentHeadersAtMost150 ==
    (output.called /\ input.builder \in {"build_roadmap_blocks", "build_release_blocks",
                                         "build_changelog_blocks", "build_confluence_blocks"}) =>
        \A n \in 1..Len(output.ret) :
            output.ret[n].type = "header" =>
                /\ Len(output.ret[n].text) <= 150
                /\ Len(input.project_name) >= 150 => Len(output.ret[n].text) = 150

----------------------------------------------------------------------------
(* dev_updates.py: the commands.  environ is what a command finds outside  *)
(* the program: the token, the documents of the repository, its git log,   *)
(* the configuration, and how long the chart URLs of its history get.  The *)
(* repository path always resolves.  What a command prints and every       *)
(* request it sends are events of the world's log, in order.               *)

print(w, text) ==
    [w EXCEPT !.log = Append(@, [ev |-> "print", p |-> [Payload EXCEPT !.name = text]])]

\* get_channel_names with the default names; "confluence" only when configured
get_channel_names(environ) ==
    <<"dev-roadmap", "dev-releases", "dev-changelog", "coding-stats">>
    \o (IF environ.confluence THEN <<"dev-confluence">> ELSE <<>>)

\* _parse_roadmap_phases: open() of a document that is not there raises
parse_roadmap_phases(w, environ) ==
    IF ~environ.roadmap.exists THEN Raise(w, "FileNotFoundError", "ROADMAP.md")
    ELSE Return(w, environ.roadmap.phases)

\* The phases of CHANGELOG.md, newest first; latest_only stops after the first
parse_changelog(w, environ, latest_only) ==
    IF ~environ.changelog.exists THEN Raise(w, "FileNotFoundError", "CHANGELOG.md")
    ELSE Return(w, IF latest_only
                   THEN SubSeq(environ.changelog.phases, 1, Min(1, Len(environ.changelog.phases)))
                   ELSE environ.changelog.phases)

parse_features(w, environ) ==
    IF ~environ.features THEN Raise(w, "FileNotFoundError", "FEATURES.md")
    ELSE Return(w, <<>>)

\* A chart URL: how it was made and whether it carries the cb parameter
GetUrl == [via |-> "get", cb |-> TRUE]
ServiceUrl == [via |-> "create", cb |-> FALSE]

\* The POST to quickchart.io/chart/create and the URL the builder returns
ChartCreate(w) ==
    Only({ [w |-> w1,
            ret |-> IF w.chart_service = "url" THEN ServiceUrl ELSE GetUrl]
         : w1 \in {[w EXCEPT !.log = Append(@, [ev |-> "quickchart.create", p |-> Payload])]} })

\* _build_quickchart_url: GET for a short URL, POST for a long one
build_quickchart_url(w, get_url_len) ==
    IF get_url_len < GetUrlLimit THEN [w |-> w, ret |-> GetUrl] ELSE ChartCreate(w)

build_quickchart_url_raw(w, get_url_len) ==
    IF get_url_len < GetUrlLimit THEN [w |-> w, ret |-> GetUrl] ELSE ChartCreate(w)

\* build_daily_charts: the commit timeline, then the punch card
build_daily_charts(w, environ, day_stats) ==
    Only({ Only({ [w |-> punch.w, ret |-> <<line.ret, punch.ret>>]
                : punch \in {IF day_stats.punch_card # <<>>
                             THEN build_quickchart_url_raw(line.w, environ.get_url_len.punch_card)
                             ELSE [w |-> line.w, ret |-> <<>>]} })
         : line \in {IF DOMAIN day_stats.git.commits_by_date # {}
                     THEN build_quickchart_url(w, environ.get_url_len.commit_line)
                     ELSE [w |-> w, ret |-> <<>>]} })

\* _get_token, then ensure_channels
ensure_with_token(w, environ, names) ==
    Only({ IF token.exc # NoExc THEN Raise(w, token.exc, "SLACK_BOT_TOKEN")
           ELSE ensure_channels(w, names)
         : token \in {get_token(environ.token)} })

\* The end of every posting command: token, channel, post
PostToChannel(w, environ, channel_name) ==
    Only({ IF channels.exc # NoExc THEN channels
           ELSE Only({ IF posted.exc # NoExc THEN posted
                       ELSE Return(print(posted.w, "Posted to #" \o channel_name), <<>>)
                     : posted \in {post_message(channels.w, channels.ret[channel_name])} })
         : channels \in {ensure_with_token(w, environ, <<channel_name>>)} })

\* --json and --dry-run print and return before the token is read
PrintOrPost(w, environ, args, channel_name) ==
    IF args.json THEN Return(print(w, "json"), <<>>)
    ELSE IF args.dry_run
    THEN Return(print(print(w, "blocks"), "Would post to #" \o channel_name), <<>>)
    ELSE PostToChannel(w, environ, channel_name)

cmd_roadmap(w, environ, args) ==
    Only({ IF data.exc # NoExc THEN data ELSE PrintOrPost(data.w, environ, args, "dev-roadmap")
         : data \in {parse_roadmap_phases(w, environ)} })

\* parse_features is the one parse whose FileNotFoundError the command catches
cmd_release(w, environ, args) ==
    Only({ IF changelog_data.exc # NoExc THEN changelog_data
           ELSE PrintOrPost(parse_features(changelog_data.w, environ).w, environ, args, "dev-releases")
         : changelog_data \in {parse_changelog(w, environ, TRUE)} })

cmd_changelog(w, environ, args) ==
    Only({ IF data.exc # NoExc THEN data ELSE PrintOrPost(data.w, environ, args, "dev-changelog")
         : data \in {parse_changelog(w, environ, FALSE)} })

\* cmd_stats: one repository, no workspace_repo; the charts are built before
\* the dry-run return and before the token is read
cmd_stats(w, environ, args) ==
    Only({ IF daily_stats = <<>> THEN Return(print(w, "No git history found"), <<>>)
           ELSE IF args.json THEN Return(print(w, "json"), <<>>)
           ELSE Only({ IF args.dry_run
                       THEN Return(print(print(chart_urls.w, "blocks"),
                                         "Would post to #coding-stats"), <<>>)
                       ELSE PostToChannel(chart_urls.w, environ, "coding-stats")
                     : chart_urls \in {IF args.no_charts THEN [w |-> w, ret |-> <<>>]
                                       ELSE build_daily_charts(w, environ,
                                                daily_stats[Len(daily_stats)])} })
         : daily_stats \in {collect_daily_stats(environ.gitlog, "devax", None,
                                                environ.stats_exclude_paths)} })

\* parse_confluence_status reads a directory and never raises for a missing one
cmd_confluence(w, environ, args) ==
    IF ~environ.confluence
    THEN Return(print(w, "No confluence channel configured - skipping"), <<>>)
    ELSE PrintOrPost(w, environ, args, "dev-confluence")

\* get_bot_messages: the ts of the bot messages of one history page
get_bot_messages(w, channel_id, limit) ==
    Only({ IF ~r.resp.ok THEN Raise(r.w, "RuntimeError", r.resp.error)
           ELSE Only({ Return(r.w, [i \in 1..Len(bots) |-> bots[i].ts])
                     : bots \in {SelectSeq(r.resp.page, IsBotMessage)} })
         : r \in {slack_api(w, "conversations.history",
                            [Payload EXCEPT !.channel = channel_id, !.limit = limit])} })

\* The loop of delete_bot_messages: a failed delete is printed and passed over
RECURSIVE delete_upto(_, _, _, _, _)
delete_upto(w, channel_id, messages, count, deleted) ==
    IF messages = <<>> \/ deleted >= count THEN Return(w, deleted)
    ELSE Only({ IF d.exc # NoExc
                THEN delete_upto(print(d.w, "Failed to delete"), channel_id,
                                 Tail(messages), count, deleted)
                ELSE delete_upto(print(d.w, "Deleted message"), channel_id,
                                 Tail(messages), count, deleted + 1)
              : d \in {delete_message(w, channel_id, Head(messages))} })

delete_bot_messages(w, channel_id, count) ==
    Only({ IF messages.exc # NoExc THEN messages
           ELSE delete_upto(messages.w, channel_id, messages.ret, count, 0)
         : messages \in {get_bot_messages(w, channel_id, count + 5)} })

\* One step of the batch
RunStep(w, environ, args, name) ==
    CASE name = "Roadmap" -> cmd_roadmap(w, environ, args)
      [] name = "Release" -> cmd_release(w, environ, args)
      [] name = "Changelog" -> cmd_changelog(w, environ, args)
      [] name = "Stats" -> cmd_stats(w, environ, args)
      [] name = "Confluence" -> cmd_confluence(w, environ, args)

\* The loop of cmd_all: FileNotFoundError alone is caught
RECURSIVE run_steps(_, _, _, _)
run_steps(w, environ, args, steps) ==
    IF steps = <<>> THEN Return(w, <<>>)
    ELSE Only({ IF r.exc = "FileNotFoundError"
                THEN run_steps(print(print(r.w, "Skipped - " \o r.err), ""),
                               environ, args, Tail(steps))
                ELSE IF r.exc # NoExc THEN r
                ELSE run_steps(print(r.w, ""), environ, args, Tail(steps))
              : r \in {RunStep(print(w, "=== " \o Head(steps) \o " ==="),
                               environ, args, Head(steps))} })

cmd_all(w, environ, args) ==
    run_steps(w, environ, args,
              <<"Roadmap", "Release", "Changelog", "Stats">>
              \o (IF environ.confluence THEN <<"Confluence">> ELSE <<>>))

\* The channels a replay of replay_type needs
ReplayNeeded(replay_type) ==
    (IF replay_type \in {"all", "roadmap"} THEN <<"dev-roadmap">> ELSE <<>>)
    \o (IF replay_type \in {"all", "release"} THEN <<"dev-releases">> ELSE <<>>)
    \o (IF replay_type \in {"all", "changelog"} THEN <<"dev-changelog">> ELSE <<>>)
    \o (IF replay_type \in {"all", "stats"} THEN <<"coding-stats">> ELSE <<>>)

\* One item of a replay loop: printed in a dry run (the first one with its
\* blocks), else posted, with a 2 second sleep unless it is the last
ReplayItem(w, args, channels, channel_name, n, i) ==
    IF args.dry_run
    THEN Return(IF i = 0 THEN print(print(w, "blocks"), "(showing first only)") ELSE w, <<>>)
    ELSE Only({ IF posted.exc # NoExc THEN posted
                ELSE Return(IF i < n - 1 THEN sleep(posted.w, 2000) ELSE posted.w, <<>>)
              : posted \in {post_message(w, channels[channel_name])} })

\* for i, ... in enumerate(...) of the roadmap, release and changelog replays
RECURSIVE replay_items(_, _, _, _, _, _)
replay_items(w, args, channels, channel_name, n, i) ==
    IF i >= n THEN Return(w, <<>>)
    ELSE Only({ IF item.exc # NoExc THEN item
                ELSE replay_items(item.w, args, channels, channel_name, n, i + 1)
              : item \in {ReplayItem(print(w, "item"), args, channels, channel_name, n, i)} })

replay_roadmap(w, environ, args, channels) ==
    IF args.type \notin {"all", "roadmap"} THEN Return(w, <<>>)
    ELSE Only({ IF phases.exc # NoExc THEN phases
                ELSE Only({ replay_items(phases.w, args, channels, "dev-roadmap", n, 0)
                          : n \in {Len(parse_roadmap_snapshots(phases.ret))} })
              : phases \in {parse_roadmap_phases(print(w, "=== Roadmap Replay ==="),
                                                 environ)} })

replay_release(w, environ, args, channels) ==
    IF args.type \notin {"all", "release"} THEN Return(w, <<>>)
    ELSE Only({ IF changelog_data.exc # NoExc THEN changelog_data
                ELSE replay_items(parse_features(changelog_data.w, environ).w, args,
                                  channels, "dev-releases", Len(changelog_data.ret), 0)
              : changelog_data \in {parse_changelog(print(w, "=== Release Replay ==="),
                                                    environ, FALSE)} })

replay_changelog(w, environ, args, channels) ==
    IF args.type \notin {"all", "changelog"} THEN Return(w, <<>>)
    ELSE Only({ IF changelog_data.exc # NoExc THEN changelog_data
                ELSE replay_items(changelog_data.w, args, channels, "dev-changelog",
                                  Len(changelog_data.ret), 0)
              : changelog_data \in {parse_changelog(print(w, "=== Changelog Replay ==="),
                                                    environ, FALSE)} })

\* for i, day_stats in enumerate(daily): the charts of the day, then the item
RECURSIVE replay_days(_, _, _, _, _, _)
replay_days(w, environ, args, channels, daily_stats, i) ==
    IF i >= Len(daily_stats) THEN Return(w, <<>>)
    ELSE Only({ Only({ IF item.exc # NoExc THEN item
                       ELSE replay_days(item.w, environ, args, channels, daily_stats, i + 1)
                     : item \in {ReplayItem(chart_urls.w, args, channels, "coding-stats",
                                            Len(daily_stats), i)} })
              : chart_urls \in {IF args.no_charts THEN [w |-> print(w, "day"), ret |-> <<>>]
                                ELSE build_daily_charts(print(w, "day"), environ,
                                                        daily_stats[i + 1])} })

replay_stats(w, environ, args, channels) ==
    IF args.type \notin {"all", "stats"} THEN Return(w, <<>>)
    ELSE Only({ replay_days(print(print(w, "=== Stats Replay ==="),
                                  "Found development days"),
                            environ, args, channels, daily_stats, 0)
              : daily_stats \in {collect_daily_stats(environ.gitlog, "devax", None,
                                                     environ.stats_exclude_paths)} })

\* cmd_replay: the token and the channels first unless dry-run, then the four
\* replays in order; none of their exceptions is caught here
cmd_replay(w, environ, args) ==
    Only({ IF ch.exc # NoExc THEN ch
           ELSE Only({ IF a.exc # NoExc THEN a
           ELSE Only({ IF b.exc # NoExc THEN b
           ELSE Only({ IF c.exc # NoExc THEN c
           ELSE Only({ IF d.exc # NoExc THEN d
                       ELSE IF args.dry_run THEN d
                       ELSE Return(print(d.w, "Replay complete!"), <<>>)
                : d \in {replay_stats(c.w, environ, args, ch.ret)} })
                : c \in {replay_changelog(b.w, environ, args, ch.ret)} })
                : b \in {replay_release(a.w, environ, args, ch.ret)} })
                : a \in {replay_roadmap(ch.w, environ, args, ch.ret)} })
         : ch \in {IF args.dry_run THEN Return(w, <<>>)
                   ELSE ensure_with_token(w, environ, ReplayNeeded(args.type))} })

\* for name, ch_id in all_channels.items(): delete in every channel in turn
RECURSIVE delete_in_each(_, _, _, _, _)
delete_in_each(w, channels, names, count, all) ==
    IF names = <<>> THEN Return(w, <<>>)
    ELSE Only({ IF deleted.exc # NoExc THEN Raise(deleted.w, deleted.exc, deleted.err)
                ELSE delete_in_each(print(deleted.w, "deleted messages"), channels,
                                    Tail(names), count, all)
              : deleted \in {IF all
                             THEN delete_all_bot_messages(print(w, "#" \o Head(names)),
                                                          channels[Head(names)])
                             ELSE delete_bot_messages(print(w, "#" \o Head(names)),
                                                      channels[Head(names)], count)} })

\* --channel NAME or every configured channel
ChannelArgs(environ, args) ==
    IF args.channel # "" THEN <<args.channel>> ELSE get_channel_names(environ)

\* args.count is a number here; absent it is 1
cmd_delete_last(w, environ, args) ==
    Only({ IF all_channels.exc # NoExc THEN all_channels
           ELSE delete_in_each(all_channels.w, all_channels.ret, ChannelArgs(environ, args),
                               IF args.count = <<>> THEN 1 ELSE args.count[1], FALSE)
         : all_channels \in {ensure_with_token(w, environ, ChannelArgs(environ, args))} })

cmd_clear_all(w, environ, args) ==
    Only({ IF all_channels.exc # NoExc THEN all_channels
           ELSE Only({ IF cleared.exc # NoExc THEN cleared
                       ELSE Return(print(cleared.w, "All channels cleared."), <<>>)
                     : cleared \in {delete_in_each(all_channels.w, all_channels.ret,
                                                   ChannelArgs(environ, args), 0, TRUE)} })
         : all_channels \in {ensure_with_token(w, environ, ChannelArgs(environ, args))} })

cmd_setup_channels(w, environ, args) ==
    Only({ IF result.exc # NoExc THEN result
           ELSE Return(print(result.w, "Channels ready:"), <<>>)
         : result \in {ensure_with_token(print(w, "Ensuring channels exist"), environ,
                                         get_channel_names(environ))} })

\* main: the command's exception, if any, is printed and the exit status is 1
main(w, environ, command, args) ==
    Only({ IF r.exc # NoExc
           THEN [w |-> print(r.w, "Error: " \o r.err), exc |-> r.exc, err |-> r.err, exit |-> 1]
           ELSE [w |-> r.w, exc |-> NoExc, err |-> "", exit |-> 0]
         : r \in {CASE command = "roadmap" -> cmd_roadmap(w, environ, args)
                    [] command = "release" -> cmd_release(w, environ, args)
                    [] command = "changelog" -> cmd_changelog(w, environ, args)
                    [] command = "stats" -> cmd_stats(w, environ, args)
                    [] command = "confluence" -> cmd_confluence(w, environ, args)
                    [] command = "all" -> cmd_all(w, environ, args)
                    [] command = "replay" -> cmd_replay(w, environ, args)
                    [] command = "delete-last" -> cmd_delete_last(w, environ, args)
                    [] command = "clear-all" -> cmd_clear_all(w, environ, args)
                    [] command = "setup-channels" -> cmd_setup_channels(w, environ, args)} })

----------------------------------------------------------------------------
(* One run of one command in one environment                               *)

Tokens == {<<>>, <<"x", "o", "x", "p", "-", "1">>, <<"x", "o", "x", "b", "-", "1">>}

\* ROADMAP.md: missing, or a table with two shipping dates
RoadmapDocs ==
    {[exists |-> FALSE, phases |-> <<>>],
     [exists |-> TRUE,
      phases |-> <<[number |-> 1, name |-> "Phase", status |-> "COMPLETE", date |-> Date1],
                   [number |-> 2, name |-> "Phase", status |-> "COMPLETE", date |-> Date2]>>]}

\* CHANGELOG.md: missing, or two phases, newest first
ChangelogDocs ==
    {[exists |-> FALSE, phases |-> <<>>],
     [exists |-> TRUE, phases |-> <<"Phase 2", "Phase 1">>]}

\* The repository's log: no commit, or commits on two days
GitLogs == {<<>>, <<DevaxEntries[1], DevaxEntries[4]>>}

\* len(get_url) of the two daily charts: it grows with the history
ChartUrlLengths ==
    {[commit_line |-> 1999, punch_card |-> 1999], [commit_line |-> 2000, punch_card |-> 1999]}

\* FEATURES.md goes with a complete set of documents, and only a repository
\* with a history has a long chart URL
Environs ==
    {e \in [token : Tokens, roadmap : RoadmapDocs, changelog : ChangelogDocs,
            features : BOOLEAN, confluence : BOOLEAN, gitlog : GitLogs,
            get_url_len : ChartUrlLengths, stats_exclude_paths : {<<>>}] :
        /\ e.features => (e.roadmap.exists /\ e.changelog.exists)
        /\ e.gitlog = <<>> => e.get_url_len.commit_line < GetUrlLimit}

\* The platform before the command: no channel of ours yet, or #dev-roadmap
\* with the bot in it and three messages
CommandPlatforms ==
    {InitialPlatform([n \in ChannelNames |-> "free"]), ChannelWith(<<"own", "human", "own">>)}

\* At most one request of a command's run, one of its first MaxFaultAt, meets
\* a transport fault; a run without a valid token sends no request to the
\* platform
CommandTapes(environ) ==
    IF get_token(environ.token).exc # NoExc
    THEN {t \in ChannelTapes : \A i \in 1..MaxFaults : t[i].at = 0}
    ELSE {t \in ChannelTapes : t[1].at <= MaxFaultAt /\ \A i \in 2..MaxFaults : t[i].at = 0}

\* What the chart service answers to a POST, asked only for a long URL
ChartServices(environ) ==
    IF \E k \in DOMAIN environ.get_url_len : environ.get_url_len[k] >= GetUrlLimit
    THEN {"url", "fail"} ELSE {"url"}

Args == [dry_run |-> FALSE, json |-> FALSE, type |-> "all", no_charts |-> FALSE,
         channel |-> "", count |-> <<>>]

PostArgs == {[Args EXCEPT !.dry_run = d, !.json = j] : d \in BOOLEAN, j \in BOOLEAN}

StatsArgs == {[a EXCEPT !.no_charts = n] : a \in PostArgs, n \in BOOLEAN}

ReplayArgs ==
    {[Args EXCEPT !.dry_run = d, !.type = t, !.no_charts = n]
        : d \in BOOLEAN, n \in BOOLEAN,
          t \in {"all", "roadmap", "release", "changelog", "stats"}}

DeleteArgs ==
    {[Args EXCEPT !.dry_run = d, !.channel = c, !.count = n]
        : d \in BOOLEAN, c \in {"", "dev-roadmap"}, n \in {<<>>, <<2>>}}

ClearArgs ==
    {[Args EXCEPT !.dry_run = d, !.channel = c] : d \in BOOLEAN, c \in {"", "dev-roadmap"}}

DryRunArgs == {[Args EXCEPT !.dry_run = d] : d \in BOOLEAN}

Init ==
    /\ env \in Environs
    /\ plat \in CommandPlatforms
    /\ hist = <<>>
    /\ all_phases = Unused /\ snapshots = Unused
    /\ repos = Unused /\ daily = Unused
    /\ input = Unused /\ output = Unused

\* python3 dev_updates.py command ...: one run of main from start to exit
Run(command, args, tape, chart_service) ==
    /\ \E r \in {main(World(plat, tape) @@ [chart_service |-> chart_service],
                      env, command, args)} :
          /\ plat' = PlatformOf(r.w)
          /\ hist' = <<[command |-> command, args |-> args, tape |-> tape,
                        before |-> plat, exc |-> r.exc, err |-> r.err,
                        exit |-> r.exit, log |-> r.w.log]>>
    /\ UNCHANGED <<env, roadmapVars, statsVars, pureVars>>

\* Each command runs once, from the initial state
Roadmap ==
    /\ hist = <<>>
    /\ \E args \in PostArgs, tape \in CommandTapes(env) : Run("roadmap", args, tape, "url")

Release ==
    /\ hist = <<>>
    /\ \E args \in PostArgs, tape \in CommandTapes(env) : Run("release", args, tape, "url")

Changelog ==
    /\ hist = <<>>
    /\ \E args \in PostArgs, tape \in CommandTapes(env) : Run("changelog", args, tape, "url")

Stats ==
    /\ hist = <<>>
    /\ \E args \in StatsArgs, tape \in CommandTapes(env),
          chart_service \in ChartServices(env) : Run("stats", args, tape, chart_service)

Confluence ==
    /\ hist = <<>>
    /\ \E args \in PostArgs, tape \in CommandTapes(env) : Run("confluence", args, tape, "url")

All ==
    /\ hist = <<>>
    /\ \E args \in StatsArgs, tape \in CommandTapes(env),
          chart_service \in ChartServices(env) : Run("all", args, tape, chart_service)

Replay ==
    /\ hist = <<>>
    /\ \E args \in ReplayArgs, tape \in CommandTapes(env),
          chart_service \in ChartServices(env) : Run("replay", args, tape, chart_service)

DeleteLast ==
    /\ hist = <<>>
    /\ \E args \in DeleteArgs, tape \in CommandTapes(env) :
          Run("delete-last", args, tape, "url")

ClearAll ==
    /\ hist = <<>>
    /\ \E args \in ClearArgs, tape \in CommandTapes(env) : Run("clear-all", args, tape, "url")

SetupChannels ==
    /\ hist = <<>>
    /\ \E args \in DryRunArgs, tape \in CommandTapes(env) :
          Run("setup-channels", args, tape, "url")

Next ==
    \/ Roadmap \/ Release \/ Changelog \/ Stats \/ Confluence
    \/ All \/ Replay \/ DeleteLast \/ ClearAll \/ SetupChannels

Spec == Init /\ [][Next]_vars

\* The requests of a run that leave the machine: everything in the log that
\* is neither printed text nor a sleep
NetworkCalls(log) == {k \in 1..Len(log) : log[k].ev \notin {"print", "sleep"}}

Printed(log, text) == \E k \in 1..Len(log) : log[k].ev = "print" /\ log[k].p.name = text

\* C3 as claimed: a batch command (all, replay) is never aborted by a missing
\* document: the FileNotFoundError of a step does not end the run.
C3_BatchNeverAbortedByMissingDocument ==
    \A i \in 1..Len(hist) :
        hist[i].command \in {"all", "replay"} => hist[i].exc # "FileNotFoundError"

\* The part of C3 that holds: in "all" no missing document ends the run, the
\* step is reported as skipped, and a run that returns has announced every step.
C3_AllSkipsMissingDocument ==
    \A i \in 1..Len(hist) :
        hist[i].command = "all" =>
            /\ hist[i].exc # "FileNotFoundError"
            /\ (~env.roadmap.exists => Printed(hist[i].log, "Skipped - ROADMAP.md"))
            /\ hist[i].exc = NoExc =>
                  \A name \in {"Roadmap", "Release", "Changelog", "Stats"} :
                      Printed(hist[i].log, "=== " \o name \o " ===")

\* C4 as claimed: with the token absent or without the required prefix, a
\* command makes no outbound network call, to the chat platform or to the
\* chart service.
C4_NoNetworkCallWithoutValidToken ==
    \A i \in 1..Len(hist) :
        get_token(env.token).exc # NoExc => NetworkCalls(hist[i].log) = {}

\* The part of C4 that holds: without a valid token no request goes to the
\* chat platform.
C4_NoPlatformRequestWithoutValidToken ==
    \A i \in 1..Len(hist) :
        get_token(env.token).exc # NoExc =>
            \A k \in NetworkCalls(hist[i].log) : hist[i].log[k].ev = "quickchart.create"

\* The requests of a run that went to the chat platform
PlatformRequests(log) == {k \in NetworkCalls(log) : log[k].ev # "quickchart.create"}

\* A request of the run was answered with a non-success response: the fault
\* of the tape fell on a request that the run did send
MetNonSuccess(h) == h.tape[1].at \in 1..Cardinality(PlatformRequests(h.log))

BatchSteps(environ) ==
    {"Roadmap", "Release", "Changelog", "Stats"}
    \cup (IF environ.confluence THEN {"Confluence"} ELSE {})

\* C20 as claimed: when a step of "all" receives a non-success response from
\* the chat platform, the step is skipped and the remaining steps still run:
\* the run announces every step and ends with exit status 0.
C20_BatchSkipsFailedStep ==
    \A i \in 1..Len(hist) :
        (hist[i].command = "all" /\ MetNonSuccess(hist[i]))
        => /\ hist[i].exit = 0
           /\ \A name \in BatchSteps(env) :
                 Printed(hist[i].log, "=== " \o name \o " ===")

\* What the code does instead: the non-success response ends the run of
\* "all" as it ends a single command, with the error printed, exit status 1
\* and no request after the one that failed.
C20_NonSuccessEndsBatch ==
    \A i \in 1..Len(hist) :
        (hist[i].command \in {"all", "roadmap", "release", "changelog", "stats",
                              "confluence"}
         /\ MetNonSuccess(hist[i]))
        => /\ hist[i].exit = 1
           /\ hist[i].exc = "RuntimeError"
           /\ Cardinality(PlatformRequests(hist[i].log)) = hist[i].tape[1].at

\* Two posts of a run with no other post between them
SuccessivePosts(log) ==
    {kl \in Requests(log, "chat.postMessage") \X Requests(log, "chat.postMessage") :
        /\ kl[1] < kl[2]
        /\ \A j \in (kl[1] + 1)..(kl[2] - 1) : log[j].ev # "chat.postMessage"}

\* time.sleep(2) was called between the events k and l of the log
SleptBetween(log, k, l) ==
    \E j \in (k + 1)..(l - 1) : log[j].ev = "sleep" /\ log[j].p.ms = 2000

\* C21 as claimed: in a replay that is not a dry run, between any two
\* successive posts, within one replay type and from one replay type to the
\* next, the run sleeps 2 seconds.
C21_DelayBetweenAnyTwoPosts ==
    \A i \in 1..Len(hist) :
        hist[i].command = "replay" =>
            \A kl \in SuccessivePosts(hist[i].log) :
                SleptBetween(hist[i].log, kl[1], kl[2])

\* What the code does keep of it: the sleep follows every post of a replay
\* type but its last, so two successive posts to the same channel are 2
\* seconds apart; the last post of one type and the first of the next are
\* not.
C21_DelayBetweenPostsOfOneType ==
    \A i \in 1..Len(hist) :
        hist[i].command = "replay" =>
            \A kl \in SuccessivePosts(hist[i].log) :
                hist[i].log[kl[1]].p.channel = hist[i].log[kl[2]].p.channel
                => SleptBetween(hist[i].log, kl[1], kl[2])

-----------------------------------------------------------------------------
(* lib/stats/charts.py: the chart URL builders.  A URL is a text, a tuple  *)
(* of code points; the percent-encoded configuration and the clock are     *)
(* inputs, and so is what quickchart.io answers to the POST.               *)

CHART_WIDTH == 600
CHART_HEIGHT == 300

\* "https://quickchart.io/chart?c="
ChartEndpoint ==
    <<104, 116, 116, 112, 115, 58, 47, 47, 113, 117, 105, 99, 107, 99, 104,
    97, 114, 116, 46, 105, 111, 47, 99, 104, 97, 114, 116, 63, 99, 61>>

\* "&w="
WidthParam ==
    <<38, 119, 61>>

\* "&h="
HeightParam ==
    <<38, 104, 61>>

\* "&bkg=" and urllib.parse.quote(CHART_BG)
BackgroundParam ==
    <<38, 98, 107, 103, 61, 37, 50, 51, 70, 70, 70, 70, 70, 70>>

\* "&cb="
CacheBusterParam ==
    <<38, 99, 98, 61>>

\* The short URL quickchart.io makes for a stored chart
RenderUrl ==
    <<104, 116, 116, 112, 115, 58, 47, 47, 113, 117, 105, 99, 107, 99, 104,
    97, 114, 116, 46, 105, 111, 47, 99, 104, 97, 114, 116, 47, 114, 101, 110,
    100, 101, 114, 47, 122, 102, 45, 49>>

\* The f-string of get_url
get_url(encoded, width, height, cache_buster) ==
    ChartEndpoint \o encoded \o WidthParam \o Decimal(width) \o HeightParam
    \o Decimal(height) \o BackgroundParam \o CacheBusterParam \o Decimal(cache_buster)

\* urlopen of chart/create, json.loads and result.get("url", get_url); any
\* exception gives get_url
chart_create(service, url) ==
    IF service.raises THEN url
    ELSE IF service.given THEN service.url
    ELSE url

\* _build_quickchart_url, from the encoded configuration on
quickchart_url(encoded, width, height, now, service) ==
    Only({ IF Len(url) < GetUrlLimit THEN url ELSE chart_create(service, url)
         : url \in {get_url(encoded, width, height, now)} })

\* _build_quickchart_url_raw, from the encoded configuration on
quickchart_url_raw(encoded, width, height, now, service) ==
    Only({ IF Len(url) < GetUrlLimit THEN url ELSE chart_create(service, url)
         : url \in {get_url(encoded, width, height, now)} })

-----------------------------------------------------------------------------
(* The chart URL builders on configurations around the length limit        *)

MaxEncoded == 1940     \* characters of the longest encoded configuration

EncodedLengths == {0, 100, 1929, 1930, 1938, 1939, MaxEncoded}

\* int(time.time())
Clocks == {1, 1762300000}

\* quickchart.io: the request fails, or the answer has no "url", or it has one
ChartAnswers ==
    {[raises |-> TRUE, given |-> FALSE, url |-> <<>>],
     [raises |-> FALSE, given |-> FALSE, url |-> <<>>],
     [raises |-> FALSE, given |-> TRUE, url |-> RenderUrl]}

ChartInputs ==
    [builder : {"_build_quickchart_url", "_build_quickchart_url_raw"},
     encoded : {Repeat(120, n) : n \in EncodedLengths},
     now : Clocks, service : ChartAnswers]

InitCharts ==
    /\ input \in ChartInputs
    /\ output = NotApplied
    /\ plat = Unused /\ hist = Unused /\ env = Unused
    /\ all_phases = Unused /\ snapshots = Unused
    /\ repos = Unused /\ daily = Unused

BuildQuickchartUrl ==
    /\ ~output.called
    /\ input.builder = "_build_quickchart_url"
    /\ output' = [called |-> TRUE,
                  ret |-> quickchart_url(input.encoded, CHART_WIDTH, CHART_HEIGHT,
                                         input.now, input.service)]
    /\ UNCHANGED <<input, clientVars, roadmapVars, statsVars>>

BuildQuickchartUrlRaw ==
    /\ ~output.called
    /\ input.builder = "_build_quickchart_url_raw"
    /\ output' = [called |-> TRUE,
                  ret |-> quickchart_url_raw(input.encoded, CHART_WIDTH, CHART_HEIGHT,
                                             input.now, input.service)]
    /\ UNCHANGED <<input, clientVars, roadmapVars, statsVars>>

NextCharts == BuildQuickchartUrl \/ BuildQuickchartUrlRaw

SpecCharts == InitCharts /\ [][NextCharts]_vars

\* C22 as claimed: every URL a chart URL builder returns contains the
\* cache-busting parameter with the timestamp of the call, whether it comes
\* from the GET path, from a successful POST or from the fallback.
C22_EveryChartUrlHasCacheBuster ==
    output.called => Contains(output.ret, CacheBusterParam \o Decimal(input.now))

\* The URL was made by the POST: the GET URL was too long and the service
\* answered with a URL of its own
MadeByPost ==
    /\ Len(get_url(input.encoded, CHART_WIDTH, CHART_HEIGHT, input.now)) >= GetUrlLimit
    /\ ~input.service.raises /\ input.service.given

\* What the code does keep of it: the URL of the GET path and the URL of the
\* fallback end with the cache-busting parameter; the URL of a successful
\* POST is returned as the service gave it.
C22_GetAndFallbackUrlsHaveCacheBuster ==
    output.called =>
        IF MadeByPost THEN output.ret = input.service.url
        ELSE Contains(output.ret, CacheBusterParam \o Decimal(input.now))

\* The requests that change the platform
ChangingRequests(log) ==
    {k \in 1..Len(log) :
        log[k].ev \in {"chat.postMessage", "chat.delete", "conversations.create",
                       "conversations.join"}}

PostingCommands == {"roadmap", "release", "changelog", "stats", "confluence", "all", "replay"}

\* C23 as claimed: with --dry-run no command changes the chat platform: no
\* message is posted or deleted, no channel is created or joined, whichever
\* of the ten subcommands is run.
C23_DryRunChangesNothing ==
    \A i \in 1..Len(hist) :
        hist[i].args.dry_run =>
            /\ ChangingRequests(hist[i].log) = {}
            /\ plat = hist[i].before

\* What the code does keep of it: the seven posting commands read dry_run and
\* send no request at all in a dry run; delete-last, clear-all and
\* setup-channels never read the flag.
C23_DryRunOfPostingCommandsChangesNothing ==
    \A i \in 1..Len(hist) :
        (hist[i].args.dry_run /\ hist[i].command \in PostingCommands) =>
            /\ NetworkCalls(hist[i].log) \subseteq Requests(hist[i].log, "quickchart.create")
            /\ plat = hist[i].before

-----------------------------------------------------------------------------
(* delete_bot_messages on a channel where people and the bot have written  *)

MaxRecent == 7         \* messages in the channel before delete_bot_messages

\* Bot and human messages in any order, or the short lists with the messages
\* of another integration
RecentKindLists ==
    UNION {[1..n -> {"own", "human"}] : n \in 0..MaxRecent} \cup KindLists

Counts == {1, 2}

\* At most one request, one of the first three, meets a transport fault
DeleteLastTapes ==
    {t \in ChannelTapes : t[1].at <= 3 /\ \A i \in 2..MaxFaults : t[i].at = 0}

InitDeleteLast ==
    /\ plat \in {ChannelWith(kinds) : kinds \in RecentKindLists}
    /\ hist = <<>>
    /\ env = Unused
    /\ all_phases = Unused /\ snapshots = Unused
    /\ repos = Unused /\ daily = Unused
    /\ input = Unused /\ output = Unused

DeleteBotMessages ==
    /\ hist = <<>>
    /\ \E count \in Counts, tape \in DeleteLastTapes :
          \E r \in {delete_bot_messages(World(plat, tape), 1, count)} :
             /\ plat' = PlatformOf(r.w)
             /\ hist' = <<[fn |-> "delete_bot_messages", count |-> count,
                           before |-> plat.msgs, tape |-> tape, exc |-> r.exc,
                           err |-> r.err, ret |-> r.ret, log |-> r.w.log]>>
    /\ UNCHANGED <<env, roadmapVars, statsVars, pureVars>>

NextDeleteLast == DeleteBotMessages

SpecDeleteLast == InitDeleteLast /\ [][NextDeleteLast]_vars

\* The ts of the messages the bot can delete, and of the n most recent of them
Deletable(msgs) == {msgs[k].ts : k \in {j \in 1..Len(msgs) : msgs[j].own}}

MostRecent(tss, n) == {ts \in tss : Cardinality({u \in tss : u > ts}) < n}

\* No request of the operation met a transport fault
Unfaulted(h) == \A k \in 1..MaxFaults : h.tape[k].at = 0 \/ h.tape[k].at > Cardinality(PlatformRequests(h.log))

\* C24 as claimed: delete_bot_messages(count = N) never deletes more than N
\* messages, and whenever the channel holds at least N messages the bot can
\* delete, it deletes the N most recent of them and returns N, however many
\* human messages are interleaved (a run that meets a transport fault is left
\* aside).
C24_DeletesLastNBotMessages ==
    \A i \in 1..Len(hist) :
        \A removed \in {Timestamps(hist[i].before) \ Timestamps(plat.msgs)} :
            /\ Cardinality(removed) <= hist[i].count
            /\ (Unfaulted(hist[i])
                /\ Cardinality(Deletable(hist[i].before)) >= hist[i].count)
               => /\ hist[i].exc = NoExc
                  /\ hist[i].ret = hist[i].count
                  /\ removed = MostRecent(Deletable(hist[i].before), hist[i].count)

\* The messages of the one history page that delete_bot_messages reads: the
\* count + 5 most recent messages of the channel, whoever wrote them
Window(h) ==
    SelectSeq(h.before, LAMBDA m : m.ts \in MostRecent(Timestamps(h.before), h.count + 5))

\* What the code does keep of it: never more than N messages are deleted, and
\* when at least N deletable messages are among the N + 5 most recent
\* messages of the channel, the N most recent of them are deleted and N is
\* returned; older ones are out of its reach.
C24_DeletesLastNWithinWindow ==
    \A i \in 1..Len(hist) :
        \A removed \in {Timestamps(hist[i].before) \ Timestamps(plat.msgs)} :
            /\ Cardinality(removed) <= hist[i].count
            /\ removed \subseteq Deletable(Window(hist[i]))
            /\ (Unfaulted(hist[i])
                /\ Cardinality(Deletable(Window(hist[i]))) >= hist[i].count)
               => /\ hist[i].exc = NoExc
                  /\ hist[i].ret = hist[i].count
                  /\ removed = MostRecent(Deletable(hist[i].before), hist[i].count)

-----------------------------------------------------------------------------
(* _filter_excluded_paths on parsed commits whose numstat lines are known   *)

MaxFiltered == 2       \* commits handed to _filter_excluded_paths

\* Commits with no file, with excluded files only, with both kinds, with none
FilteredPool ==
    {LogEntry(Date1, 9, "ana", "Tag release", <<>>),
     LogEntry(Date1, 9, "ana", "Fix guide", <<NumstatLine(5, 1, "docs/guide.md")>>),
     LogEntry(Date2, 14, "ben", "Refactor core",
              <<NumstatLine(1, 20, "src/app.py"), NumstatLine(7, 3, "docs/api.md")>>),
     LogEntry(Date2, 14, "ben", "Add parser",
              <<NumstatLine(10, 2, "scripts/x.py"), BinaryLine("docs/logo.png")>>),
     LogEntry(Date3, 9, "cy", "Bump deps", <<NumstatLine(2, 2, "package.json")>>)}

FilterPaths == {<<>>, <<"docs/">>, <<"infra/", "docs/">>}

InitFilter ==
    /\ input \in [log : SeqsUpTo(FilteredPool, MaxFiltered), exclude_paths : FilterPaths]
    /\ output = NotApplied
    /\ plat = Unused /\ hist = Unused /\ env = Unused
    /\ all_phases = Unused /\ snapshots = Unused
    /\ repos = Unused /\ daily = Unused

FilterExcludedPaths ==
    /\ ~output.called
    /\ output' = [called |-> TRUE,
                  ret |-> filter_excluded_paths(
                              [i \in 1..Len(input.log) |-> ParseCommit(input.log[i])],
                              input.exclude_paths)]
    /\ UNCHANGED <<input, clientVars, roadmapVars, statsVars>>

NextFilter == FilterExcludedPaths

SpecFilter == InitFilter /\ [][NextFilter]_vars

IsExcluded(path, exclude_paths) ==
    \E k \in 1..Len(exclude_paths) : StartsWith(path, exclude_paths[k])

\* The numstat lines of a commit outside the excluded paths
KeptLines(entry, exclude_paths) ==
    SelectSeq(entry.numstat, LAMBDA l : ~IsExcluded(l.path, exclude_paths))

\* What the claim has the filter make of one commit: nothing when it has files
\* and all are excluded, else the commit with files and line counts of the
\* lines that are kept
ClaimedCommit(entry, exclude_paths) ==
    IF entry.numstat # <<>> /\ KeptLines(entry, exclude_paths) = <<>> THEN <<>>
    ELSE <<ParseCommit([entry EXCEPT !.numstat = KeptLines(entry, exclude_paths)])>>

\* The same with the line counts of the commit as parsed
UncountedCommit(entry, exclude_paths) ==
    IF entry.numstat # <<>> /\ KeptLines(entry, exclude_paths) = <<>> THEN <<>>
    ELSE <<[ParseCommit(entry) EXCEPT
              !.files = ParseCommit([entry EXCEPT
                                       !.numstat = KeptLines(entry, exclude_paths)]).files]>>

RECURSIVE ClaimedFilter(_, _)
ClaimedFilter(log, exclude_paths) ==
    IF log = <<>> THEN <<>>
    ELSE ClaimedCommit(Head(log), exclude_paths) \o ClaimedFilter(Tail(log), exclude_paths)

RECURSIVE UncountedFilter(_, _)
UncountedFilter(log, exclude_paths) ==
    IF log = <<>> THEN <<>>
    ELSE UncountedCommit(Head(log), exclude_paths)
         \o UncountedFilter(Tail(log), exclude_paths)

\* C26 as claimed: _filter_excluded_paths drops a commit exactly when it has
\* files and all of them are under an excluded prefix; it keeps a commit with
\* no file unchanged; it keeps any other commit with the excluded files taken
\* off its file list and its added and deleted counts recalculated without
\* those files.
C26_FilterRecalculatesLineCounts ==
    output.called => output.ret = ClaimedFilter(input.log, input.exclude_paths)

\* What the code does keep of it: the same commits are dropped and kept and
\* the file lists are cut down, but the added and deleted counts of a kept
\* commit are the ones of all its files.
C26_FilterKeepsLineCounts ==
    output.called => output.ret = UncountedFilter(input.log, input.exclude_paths)

-----------------------------------------------------------------------------
(* _calculate_active_period_days on every set of commit dates within a few  *)
(* days that span the end of a month                                        *)

MaxSpan == 9           \* days from the first date a commit can have to the last

\* 2026-01-28 and the days after it
DayDate(k) == IF 28 + k <= 31 THEN IsoDate(2026, 1, 28 + k) ELSE IsoDate(2026, 2, k - 3)

CommitDays == UNION {[S -> {1}] : S \in SUBSET {DayDate(k) : k \in 0..MaxSpan}}

InitActivePeriod ==
    /\ input \in CommitDays
    /\ output = NotApplied
    /\ plat = Unused /\ hist = Unused /\ env = Unused
    /\ all_phases = Unused /\ snapshots = Unused
    /\ repos = Unused /\ daily = Unused

CalculateActivePeriodDays ==
    /\ ~output.called
    /\ output' = [called |-> TRUE, ret |-> calculate_active_period_days(input)]
    /\ UNCHANGED <<input, clientVars, roadmapVars, statsVars>>

NextActivePeriod == CalculateActivePeriodDays

SpecActivePeriod == InitActivePeriod /\ [][NextActivePeriod]_vars

\* The days, counted from 2026-01-28, that have a commit
ActiveDays == {k \in 0..MaxSpan : DayDate(k) \in DOMAIN input}

\* Two active days with no active day between them
Neighbours(days) ==
    {ab \in days \X days : ab[1] < ab[2] /\ \A c \in days : ~(ab[1] < c /\ c < ab[2])}

\* C27: for a non-empty set of active dates, calendar_days is last - first + 1,
\* longest_gap_days is the largest number of commit-free days between two
\* consecutive active dates, and active_period_days is calendar_days less the
\* days of the gaps longer than 3 days (the calendar days that do not lie in
\* such a gap); hence active_coding_days <= active_period_days <= calendar_days.
C27_ActivePeriodLessLongGaps ==
    (output.called /\ ActiveDays # {}) =>
        \A first \in {k \in ActiveDays : \A j \in ActiveDays : k <= j},
           last \in {k \in ActiveDays : \A j \in ActiveDays : j <= k} :
            /\ output.ret.calendar_days = last - first + 1
            /\ output.ret.active_coding_days = Cardinality(ActiveDays)
            /\ \A ab \in Neighbours(ActiveDays) :
                  ab[2] - ab[1] - 1 <= output.ret.longest_gap_days
            /\ \/ \E ab \in Neighbours(ActiveDays) :
                     ab[2] - ab[1] - 1 = output.ret.longest_gap_days
               \/ output.ret.longest_gap_days = 0
            /\ output.ret.active_period_days =
                  Cardinality({d \in first..last :
                                  ~\E ab \in Neighbours(ActiveDays) :
                                      /\ ab[1] < d /\ d < ab[2]
                                      /\ ab[2] - ab[1] - 1 > 3})
            /\ output.ret.active_coding_days <= output.ret.active_period_days
            /\ output.ret.active_period_days <= output.ret.calendar_days

\* Commits on 01-28, 02-01 and 02-06: a gap of exactly 3 days, which stays,
\* and one of 4 days, which is taken off
C27_Witness ==
    /\ output.called
    /\ ActiveDays = {0, 4, 9}
    /\ output.ret.calendar_days = 10
    /\ output.ret.longest_gap_days = 4
    /\ output.ret.active_period_days = 6

-----------------------------------------------------------------------------
(* The collectors on logs with commits that changed no file                 *)

MaxLogged == 2         \* commits in the log of one repository

\* Two commits without a changed file, one of them a merge, and one with a file
LoggedPool ==
    {LogEntry(Date1, 9, "ana", "Tag release", <<>>),
     LogEntry(Date1, 9, "ben", "Merge branch dev", <<>>),
     LogEntry(Date2, 14, "cy", "Bump deps", <<NumstatLine(2, 2, "package.json")>>)}

InitCollect ==
    /\ input \in [fn : {"collect_daily_stats", "collect_multi_repo_daily_stats"},
                  logs : [RepoNames -> SeqsUpTo(LoggedPool, MaxLogged)],
                  repo_name : RepoNames,
                  workspace_repo : WorkspaceRepos]
    /\ output = NotApplied
    /\ plat = Unused /\ hist = Unused /\ env = Unused
    /\ all_phases = Unused /\ snapshots = Unused
    /\ repos = Unused /\ daily = Unused

CollectOne ==
    /\ ~output.called
    /\ input.fn = "collect_daily_stats"
    /\ output' = [called |-> TRUE,
                  ret |-> collect_daily_stats(input.logs[input.repo_name], input.repo_name,
                                              input.workspace_repo, <<>>)]
    /\ UNCHANGED <<input, clientVars, roadmapVars, statsVars>>

CollectMulti ==
    /\ ~output.called
    /\ input.fn = "collect_multi_repo_daily_stats"
    /\ output' = [called |-> TRUE,
                  ret |-> collect_multi_repo_daily_stats(input.logs, <<"devax", "app">>,
                                                         input.workspace_repo, <<>>)]
    /\ UNCHANGED <<input, clientVars, roadmapVars, statsVars>>

NextCollect == CollectOne \/ CollectMulti

SpecCollect == InitCollect /\ [][NextCollect]_vars

\* The commits of the call: repository and position in its log
CollectedFrom ==
    {rn \in RepoNames \X (1..MaxLogged) :
        /\ rn[2] <= Len(input.logs[rn[1]])
        /\ input.fn = "collect_daily_stats" => rn[1] = input.repo_name}

\* daily_commits of the DailyStat of a date, 0 when there is none
CountedOn(date) ==
    IF \E i \in 1..Len(output.ret) : output.ret[i].generated_at = date
    THEN output.ret[CHOOSE i \in 1..Len(output.ret) :
                       output.ret[i].generated_at = date].git.daily_commits
    ELSE 0

\* project_tags[tag] of the DailyStat of a date, 0 when there is none
TaggedOn(date, tag) ==
    IF \E i \in 1..Len(output.ret) :
          output.ret[i].generated_at = date /\ tag \in DOMAIN output.ret[i].project_tags
    THEN output.ret[CHOOSE i \in 1..Len(output.ret) :
                       output.ret[i].generated_at = date].project_tags[tag]
    ELSE 0

\* A commit with files is kept by the rules of the classifiers
KeptWithFiles(repo_name, entry) ==
    IsRetained(TagCommit(ParseCommit(entry), repo_name, input.workspace_repo))

\* C30 as claimed: a commit without changed files never appears in a
\* DailyStat when it is in the workspace repository, and in any other
\* repository it is tagged with the repository's name and retained.
C30_CommitWithoutFilesKeptOutsideWorkspace ==
    output.called =>
        \A date \in {Date1, Date2} :
            CountedOn(date) =
                Cardinality({rn \in CollectedFrom :
                    \E e \in {input.logs[rn[1]][rn[2]]} :
                        /\ e.date = date
                        /\ IF e.numstat = <<>> THEN rn[1] # input.workspace_repo
                           ELSE KeptWithFiles(rn[1], e)})

\* C30 as the code has it: a commit without changed files never appears in a
\* DailyStat when it is in the workspace repository; in any other repository
\* it is tagged with the repository's name, and it is retained unless its
\* commit type is null (a merge commit, an "Ignore ..." commit).
C30_CommitWithoutFilesKeptWhenTyped ==
    output.called =>
        \A date \in {Date1, Date2} :
            /\ CountedOn(date) =
                  Cardinality({rn \in CollectedFrom :
                      \E e \in {input.logs[rn[1]][rn[2]]} :
                          /\ e.date = date
                          /\ IF e.numstat = <<>>
                             THEN /\ rn[1] # input.workspace_repo
                                  /\ classify_commit(e.subject) # None
                             ELSE KeptWithFiles(rn[1], e)})
            /\ \A r \in RepoNames \ {input.workspace_repo} :
                  TaggedOn(date, r) =
                      Cardinality({rn \in CollectedFrom :
                          /\ rn[1] = r
                          /\ input.logs[r][rn[2]].date = date
                          /\ classify_commit(input.logs[r][rn[2]].subject) # None})

\* "Tag release", which changed no file, in the workspace repository and in
\* the other one: one DailyStat, with the commit of the other repository alone
C30_Witness ==
    /\ output.called
    /\ input.fn = "collect_multi_repo_daily_stats" /\ input.workspace_repo = "devax"
    /\ input.logs["devax"] = <<LogEntry(Date1, 9, "ana", "Tag release", <<>>)>>
    /\ input.logs["app"] = <<LogEntry(Date1, 9, "ana", "Tag release", <<>>)>>
    /\ Len(output.ret) = 1
    /\ output.ret[1].git.daily_commits = 1
    /\ output.ret[1].project_tags = [t \in {"app"} |-> 1]

====
